---- MODULE Spec2Model ----
\* Verification model of the WSO2 MI embedding service: XMLChunker, Watcher,
\* SQLiteDB, Pipeline and the EmbeddingService scheduler.
EXTENDS Integers, Sequences, FiniteSets, TLC

\* ------------------------------------------------------------------------
\* Bounds of the model
\* ------------------------------------------------------------------------
MaxScans == 3       \* scans explored: initial passes plus poll cycles
MaxEdits == 2       \* file-system edits explored
MaxEmbedFails == 1  \* Embedder.embed rejections explored
MaxTasks == 2       \* async poll cycles alive at the same time
MaxIds == 3         \* rows inserted through the store interface
MaxTopK == 2        \* largest topK passed to CodeRetrieval.search
MaxScanFails == 1   \* scanForChanges rejections explored
MaxBody == 3        \* lines between the root's tags in a generated document
MaxStarts == 1      \* start() calls on a service that was already started
MaxIndexCalls == 2  \* indexFile calls of the legacy service
MaxTouches == 2     \* writes to the file the legacy service indexes
MaxMtime == 2       \* modification times of that file

\* Program constants
TokenBudget == 150
MinTokenLen == 2
MaxTokenLen == 50

Null == -1          \* null (parentChunkId), undefined (Map.get miss)
NoFile == 0         \* path has no file
NoHash == 0         \* path has no entry in Watcher.fileHashes

\* ------------------------------------------------------------------------
\* Documents: a document is its lines, a line is its sequence of tokens.
\*   open  <t ...>      close </t>      self <t ... />
\*   bare  <t/>         text  a word of character data of length n
\* a is the value of the element's name attribute ("" when it has none).
\* ------------------------------------------------------------------------
O(t, a) == [k |-> "open", t |-> t, a |-> a, n |-> 0]
C(t) == [k |-> "close", t |-> t, a |-> "", n |-> 0]
S(t, a) == [k |-> "self", t |-> t, a |-> a, n |-> 0]
B(t) == [k |-> "bare", t |-> t, a |-> "", n |-> 0]
X(w, n) == [k |-> "text", t |-> w, a |-> "", n |-> n]

\* one api holding a log and a respond mediator
DocTwoLeaves ==
  [bad |-> FALSE,
   lines |-> << <<O("api", "a")>>, <<X("ver1", 4)>>, <<S("log", "")>>,
                <<S("respond", "")>>, <<C("api")>> >>]
\* the same document with the respond element deleted (its line left blank)
DocOneLeaf ==
  [bad |-> FALSE,
   lines |-> << <<O("api", "a")>>, <<X("ver1", 4)>>, <<S("log", "")>>,
                << >>, <<C("api")>> >>]
\* the same document with the api's own character data edited
DocTextEdit ==
  [bad |-> FALSE,
   lines |-> << <<O("api", "a")>>, <<X("ver2", 4)>>, <<S("log", "")>>,
                <<S("respond", "")>>, <<C("api")>> >>]
\* an api holding two log mediators
DocTwoLogs ==
  [bad |-> FALSE,
   lines |-> << <<O("api", "a")>>, <<S("log", "")>>, <<S("log", "")>>,
                <<C("api")>> >>]
\* a document XMLParser.parse rejects
DocBad == [bad |-> TRUE, lines |-> << >>]

\* an api whose opening line also holds a self-closed element, and a log
\* mediator on the next line
DocNestOuter ==
  [bad |-> FALSE,
   lines |-> << <<O("api", "a"), B("description")>>, <<S("log", "")>>,
                <<C("api")>> >>]
\* an XML declaration, then an api on one line holding a bare respond
DocNestInner ==
  [bad |-> FALSE,
   lines |-> << <<X("xml", 3)>>, <<O("api", "a"), B("respond"), C("api")>> >>]

\* a well-formed document none of whose tags is classified
DocNoChunks ==
  [bad |-> FALSE,
   lines |-> << <<O("definitions", "")>>, <<X("note", 4)>>,
                <<C("definitions")>> >>]

Docs == <<DocTwoLeaves, DocOneLeaf, DocTextEdit, DocTwoLogs, DocBad,
          DocNestOuter, DocNestInner, DocNoChunks>>
DocIds == 1..Len(Docs)
\* the two nested revisions
NestDocIds == {6, 7}
\* the revisions that leave a document in place without any fragment
InPlaceDocIds == {5, 8}

\* the watched directories (getProjectPaths) and the .xml files that can exist
\* under each
Directories == <<"BankIntegration", "Hotelintegration">>
FilesUnder(dir) ==
  CASE dir = "BankIntegration" -> <<"BankIntegration/apis/A.xml">>
    [] dir = "BankIntegration/apis" -> <<"BankIntegration/apis/A.xml">>
    [] dir = "Hotelintegration" -> <<"Hotelintegration/sequences/B.xml">>
    [] OTHER -> << >>
Paths == {"BankIntegration/apis/A.xml", "Hotelintegration/sequences/B.xml"}
\* the documents explored at each path
DocsAt(p) ==
  IF p = "BankIntegration/apis/A.xml" THEN 1..5 ELSE {1}

\* ------------------------------------------------------------------------
\* XMLChunker
\* ------------------------------------------------------------------------
isResourceType(tagName) ==
  tagName \in {"api", "proxy", "sequence", "endpoint", "localEntry", "resource"}

\* mutant: no tag is a flow tag
isSequenceTypeNone(tagName) == FALSE

isSequenceType(tagName) ==
  tagName \in {"inSequence", "outSequence", "faultSequence"}

\* mutant: respond is not in the list of mediators
isMediatorTypeNoRespond(tagName) ==
  tagName \in {"log", "payloadFactory", "property", "variable", "filter",
               "call", "send", "drop", "enrich", "switch", "clone",
               "iterate", "aggregate", "cache", "throttle", "validate", "xslt",
               "script", "http.post", "http.get", "http.put", "http.delete",
               "http.patch"}

isMediatorType(tagName) ==
  tagName \in {"log", "payloadFactory", "property", "variable", "filter",
               "respond", "call", "send", "drop", "enrich", "switch", "clone",
               "iterate", "aggregate", "cache", "throttle", "validate", "xslt",
               "script", "http.post", "http.get", "http.put", "http.delete",
               "http.patch"}

getResourceType(filePath) ==
  CASE filePath = "BankIntegration/apis/A.xml" -> "api"
    [] filePath = "Hotelintegration/sequences/B.xml" -> "sequence"
    [] OTHER -> "unknown"

\* the regular expressions of findElementRange, per line
OpenMatch(line, tagName) ==
  \E j \in 1..Len(line) : line[j].k \in {"open", "self"} /\ line[j].t = tagName
CloseMatch(line, tagName) ==
  \E j \in 1..Len(line) : line[j].k = "close" /\ line[j].t = tagName
HasSelfClose(line) ==
  \E j \in 1..Len(line) : line[j].k \in {"self", "bare"}

\* the loop of findElementRange from 0-based line i on; start/end are -1 until found
RECURSIVE RangeLoop(_, _, _, _, _)
RangeLoop(lines, tagName, i, startLine, depth) ==
  IF i >= Len(lines) THEN [start |-> startLine, end |-> -1]
  ELSE LET line == lines[i + 1] IN
    IF startLine = -1
    THEN IF OpenMatch(line, tagName)
         THEN IF HasSelfClose(line)
              THEN [start |-> i + 1, end |-> i + 1]
              ELSE RangeLoop(lines, tagName, i + 1, i + 1, 1)
         ELSE RangeLoop(lines, tagName, i + 1, startLine, depth)
    ELSE LET d1 == IF OpenMatch(line, tagName) /\ ~HasSelfClose(line)
                   THEN depth + 1 ELSE depth
             d2 == IF CloseMatch(line, tagName) THEN d1 - 1 ELSE d1
         IN IF CloseMatch(line, tagName) /\ d2 = 0
            THEN [start |-> startLine, end |-> i + 1]
            ELSE RangeLoop(lines, tagName, i + 1, startLine, d2)

findElementRange(tagName, lines) ==
  LET r == RangeLoop(lines, tagName, 0, -1, 0)
      s == IF r.start = -1 THEN 1 ELSE r.start
      e == IF r.end = -1 THEN s ELSE r.end
  IN [start |-> s, end |-> e]

\* all tokens of lines a..b (1-based, inclusive), in order
RECURSIVE TokensOf(_, _, _)
TokensOf(lines, a, b) ==
  IF a > b \/ a > Len(lines) THEN << >>
  ELSE lines[a] \o TokensOf(lines, a + 1, b)

\* the words createEmbeddingText keeps of the content of a range
RECURSIVE ContentTokens(_)
ContentTokens(toks) ==
  IF toks = << >> THEN << >>
  ELSE LET h == Head(toks) IN
    (IF h.k = "text" /\ h.n > MinTokenLen /\ h.n < MaxTokenLen
     THEN <<h.t>> ELSE << >>) \o ContentTokens(Tail(toks))

\* extractAttributes(element): the merged attributes of the element's
\* children (the last child naming an attribute wins); pos is the element's
\* token in the flattened document
RECURSIVE ChildName(_, _, _, _)
ChildName(toks, pos, depth, acc) ==
  IF pos > Len(toks) THEN acc
  ELSE LET tk == toks[pos] IN
    CASE tk.k = "close" ->
           IF depth = 0 THEN acc ELSE ChildName(toks, pos + 1, depth - 1, acc)
      [] tk.k = "open" ->
           ChildName(toks, pos + 1, depth + 1,
                     IF depth = 0 /\ tk.a # "" THEN tk.a ELSE acc)
      [] tk.k \in {"self", "bare"} ->
           ChildName(toks, pos + 1, depth,
                     IF depth = 0 /\ tk.a # "" THEN tk.a ELSE acc)
      [] OTHER -> ChildName(toks, pos + 1, depth, acc)

extractAttributes(toks, pos) ==
  IF toks[pos].k = "open" THEN ChildName(toks, pos + 1, 0, "") ELSE ""

Truncate(s, n) == IF Len(s) > n THEN SubSeq(s, 1, n) ELSE s

createEmbeddingText(tagName, resourceName, content, attrName) ==
  Truncate(<<tagName, resourceName>>
             \o (IF attrName # "" THEN <<"name", attrName>> ELSE << >>)
             \o ContentTokens(content), TokenBudget)

\* chunkResource / chunkSequence / chunkMediator: the chunk pushed for the
\* element at token pos, numbered chunkIndex
MakeChunk(toks, pos, lines, filePath, chunkIndex, parentChunkId) ==
  LET tagName == toks[pos].t
      attrName == extractAttributes(toks, pos)
      resourceName == IF attrName # "" THEN attrName ELSE tagName
      range == findElementRange(tagName, lines)
      content == TokensOf(lines, range.start, range.end)
  IN [filePath |-> filePath,
      resourceName |-> resourceName,
      resourceType |-> IF isResourceType(tagName) THEN tagName
                       ELSE getResourceType(filePath),
      chunkType |-> tagName,
      chunkIndex |-> chunkIndex,
      startLine |-> range.start,
      endLine |-> range.end,
      parentChunkId |-> parentChunkId,
      embeddingText |-> createEmbeddingText(tagName, resourceName, content, attrName)]

\* processNode over the flattened document: stack holds, per open element,
\* the parentChunkId its children get and whether they are skipped (the
\* children of a mediator are never visited)
RECURSIVE processNode(_, _, _, _, _, _, _)
processNode(toks, pos, stack, counter, chunks, lines, filePath) ==
  IF pos > Len(toks) THEN [chunks |-> chunks, counter |-> counter]
  ELSE LET tk == toks[pos]
           ctx == stack[Len(stack)]
           pushed(fr) == IF tk.k = "open" THEN Append(stack, fr) ELSE stack
    IN
    CASE tk.k = "text" ->
           processNode(toks, pos + 1, stack, counter, chunks, lines, filePath)
      [] tk.k = "close" ->
           processNode(toks, pos + 1,
                       IF Len(stack) > 1 THEN SubSeq(stack, 1, Len(stack) - 1)
                       ELSE stack,
                       counter, chunks, lines, filePath)
      [] OTHER ->
           IF ctx.skip
           THEN processNode(toks, pos + 1, pushed(ctx), counter, chunks,
                            lines, filePath)
           ELSE IF isResourceType(tk.t) \/ isSequenceType(tk.t)
           THEN processNode(toks, pos + 1,
                            pushed([parent |-> counter, skip |-> FALSE]),
                            counter + 1,
                            Append(chunks, MakeChunk(toks, pos, lines, filePath,
                                                     counter, ctx.parent)),
                            lines, filePath)
           ELSE IF isMediatorType(tk.t)
           THEN processNode(toks, pos + 1,
                            pushed([parent |-> ctx.parent, skip |-> TRUE]),
                            counter + 1,
                            Append(chunks, MakeChunk(toks, pos, lines, filePath,
                                                     counter, ctx.parent)),
                            lines, filePath)
           ELSE processNode(toks, pos + 1, pushed(ctx), counter, chunks,
                            lines, filePath)

\* mutant: the walk starts with the first index as parent instead of null
chunkFileRootParent(doc, filePath, counter) ==
  processNode(TokensOf(doc.lines, 1, Len(doc.lines)), 1,
              <<[parent |-> counter, skip |-> FALSE]>>, counter, << >>,
              doc.lines, filePath)

\* the synchronous tail of chunkFile after its file read: parse and walk,
\* numbering the chunks from the instance's chunkCounter
chunkFile(doc, filePath, counter) ==
  processNode(TokensOf(doc.lines, 1, Len(doc.lines)), 1,
              <<[parent |-> Null, skip |-> FALSE]>>, counter, << >>,
              doc.lines, filePath)

\* ------------------------------------------------------------------------
\* Embedder and hash
\* ------------------------------------------------------------------------
\* computeHash: SHA-256 of the content, taken as collision free
computeHash(docId) == 100 + docId

\* Embedder.embed: a deterministic function of the text
embed(text) == <<"vec", text>>

\* ------------------------------------------------------------------------
\* SQLiteDB over the chunks table of schema.sql
\* ------------------------------------------------------------------------
\* idx_unique_chunk on (file_path, chunk_index, start_line, end_line), for
\* the row id about to hold these values
UniqueOk(rs, id, filePath, md) ==
  ~\E r \in rs : /\ r.id # id
                 /\ r.filePath = filePath
                 /\ r.chunkIndex = md.chunkIndex
                 /\ r.startLine = md.startLine
                 /\ r.endLine = md.endLine

\* mutant: the foreign key is not enforced
ForeignKeyOff(rs, parentChunkId) == TRUE

\* FOREIGN KEY (parent_chunk_id) REFERENCES chunks(id)
ForeignKeyOk(rs, parentChunkId) ==
  parentChunkId = Null \/ \E r \in rs : r.id = parentChunkId

MakeRow(id, filePath, md, embedding) ==
  [id |-> id, filePath |-> filePath, fileHash |-> md.fileHash,
   resourceName |-> md.resourceName, resourceType |-> md.resourceType,
   chunkType |-> md.chunkType, chunkIndex |-> md.chunkIndex,
   startLine |-> md.startLine, endLine |-> md.endLine,
   parentChunkId |-> md.parentChunkId, embedding |-> embedding,
   timestamp |-> md.timestamp]

\* mutant: id INTEGER PRIMARY KEY without AUTOINCREMENT, the new rowid is
\* one more than the largest rowid in the table
insertChunkRowid(rs, nid, md, embedding) ==
  LET id == IF rs = {} THEN 1
            ELSE 1 + (CHOOSE m \in {r.id : r \in rs} : \A r \in rs : r.id <= m)
  IN IF UniqueOk(rs, id, md.filePath, md) /\ ForeignKeyOk(rs, md.parentChunkId)
     THEN [ok |-> TRUE, rows |-> rs \cup {MakeRow(id, md.filePath, md, embedding)},
           nextId |-> id + 1, id |-> id]
     ELSE [ok |-> FALSE, rows |-> rs, nextId |-> nid, id |-> Null]

\* insertChunk: ok is FALSE when the statement throws a constraint error
insertChunk(rs, nid, md, embedding) ==
  IF UniqueOk(rs, nid, md.filePath, md) /\ ForeignKeyOk(rs, md.parentChunkId)
  THEN [ok |-> TRUE, rows |-> rs \cup {MakeRow(nid, md.filePath, md, embedding)},
        nextId |-> nid + 1, id |-> nid]
  ELSE [ok |-> FALSE, rows |-> rs, nextId |-> nid, id |-> Null]

\* mutant: INSERT OR REPLACE, a missing id gets a row
updateChunkUpsert(rs, id, md, embedding) ==
  IF ~\E r \in rs : r.id = id
  THEN [ok |-> TRUE, rows |-> rs \cup {MakeRow(id, md.filePath, md, embedding)}]
  ELSE LET old == CHOOSE r \in rs : r.id = id
       IN [ok |-> TRUE,
           rows |-> (rs \ {old}) \cup {MakeRow(id, old.filePath, md, embedding)}]

\* updateChunk: UPDATE ... WHERE id = ?; file_path is not among the columns set
updateChunk(rs, id, md, embedding) ==
  IF ~\E r \in rs : r.id = id THEN [ok |-> TRUE, rows |-> rs]
  ELSE LET old == CHOOSE r \in rs : r.id = id
           new == MakeRow(id, old.filePath, md, embedding)
       IN IF UniqueOk(rs, id, old.filePath, md)
             /\ ForeignKeyOk((rs \ {old}) \cup {new}, md.parentChunkId)
          THEN [ok |-> TRUE, rows |-> (rs \ {old}) \cup {new}]
          ELSE [ok |-> FALSE, rows |-> rs]

getChunksByFile(rs, filePath) == {r \in rs : r.filePath = filePath}

\* ON DELETE CASCADE: the ids deleted together with the ids in dead
RECURSIVE Cascade(_, _)
Cascade(rs, dead) ==
  LET more == {r.id : r \in {q \in rs : q.parentChunkId \in dead}} \ dead
  IN IF more = {} THEN dead ELSE Cascade(rs, dead \cup more)

\* mutant: the DELETE statement removes nothing
deleteChunksByFileNone(rs, filePath) == rs

deleteChunksByFile(rs, filePath) ==
  LET dead == Cascade(rs, {r.id : r \in getChunksByFile(rs, filePath)})
  IN {r \in rs : r.id \notin dead}

\* ------------------------------------------------------------------------
\* Watcher: fileHashes is the insertion-ordered Map, a sequence of entries
\* ------------------------------------------------------------------------
MapHas(m, filePath) == \E j \in 1..Len(m) : m[j].filePath = filePath
MapGet(m, filePath) ==
  IF MapHas(m, filePath)
  THEN m[CHOOSE j \in 1..Len(m) : m[j].filePath = filePath].hash
  ELSE NoHash
MapSet(m, filePath, hash) ==
  IF MapHas(m, filePath)
  THEN [j \in 1..Len(m) |->
          IF m[j].filePath = filePath THEN [filePath |-> filePath, hash |-> hash]
          ELSE m[j]]
  ELSE Append(m, [filePath |-> filePath, hash |-> hash])

\* findXMLFiles of every directory of the list, in order
RECURSIVE Enumerate(_, _)
Enumerate(dirs, files) ==
  IF dirs = << >> THEN << >>
  ELSE SelectSeq(FilesUnder(Head(dirs)), LAMBDA p : files[p] # NoFile)
         \o Enumerate(Tail(dirs), files)

\* the first loop of scanForChanges over the enumerated files
RECURSIVE ScanFiles(_, _, _, _, _)
ScanFiles(found, files, oldMap, currentFiles, changes) ==
  IF found = << >> THEN [currentFiles |-> currentFiles, changes |-> changes]
  ELSE LET filePath == Head(found)
           hash == computeHash(files[filePath])
           oldHash == MapGet(oldMap, filePath)
       IN ScanFiles(Tail(found), files, oldMap,
                    MapSet(currentFiles, filePath, hash),
                    IF oldHash = NoHash \/ oldHash # hash
                    THEN Append(changes, [filePath |-> filePath, hash |-> hash,
                                          exists |-> TRUE])
                    ELSE changes)

\* mutant: the second loop tests currentFiles.has without the negation
RECURSIVE ScanRemovedNoNot(_, _, _)
ScanRemovedNoNot(oldMap, currentFiles, changes) ==
  IF oldMap = << >> THEN changes
  ELSE LET e == Head(oldMap) IN
    ScanRemovedNoNot(Tail(oldMap), currentFiles,
                     IF MapHas(currentFiles, e.filePath)
                     THEN Append(changes, [filePath |-> e.filePath, hash |-> e.hash,
                                           exists |-> FALSE])
                     ELSE changes)

\* the second loop: entries of the old map that were not enumerated
RECURSIVE ScanRemoved(_, _, _)
ScanRemoved(oldMap, currentFiles, changes) ==
  IF oldMap = << >> THEN changes
  ELSE LET e == Head(oldMap) IN
    ScanRemoved(Tail(oldMap), currentFiles,
                IF ~MapHas(currentFiles, e.filePath)
                THEN Append(changes, [filePath |-> e.filePath, hash |-> e.hash,
                                      exists |-> FALSE])
                ELSE changes)

\* mutant: the entries of paths that were not enumerated stay in the map
scanForChangesKeep(dirs, files, oldMap) ==
  LET first == ScanFiles(Enumerate(dirs, files), files, oldMap, << >>, << >>)
  IN [changes |-> ScanRemoved(oldMap, first.currentFiles, first.changes),
      fileHashes |-> first.currentFiles
                       \o SelectSeq(oldMap, LAMBDA e :
                                       ~MapHas(first.currentFiles, e.filePath))]

\* scanForChanges: the returned list and the map it leaves in this.fileHashes
scanForChanges(dirs, files, oldMap) ==
  LET first == ScanFiles(Enumerate(dirs, files), files, oldMap, << >>, << >>)
  IN [changes |-> ScanRemoved(oldMap, first.currentFiles, first.changes),
      fileHashes |-> first.currentFiles]

\* ------------------------------------------------------------------------
\* State
\* ------------------------------------------------------------------------
VARIABLES
  fs,            \* path -> id of the document stored there, NoFile if none
  fileHashes,    \* Watcher.fileHashes
  rows,          \* the chunks table
  nextId,        \* the AUTOINCREMENT sequence of chunks.id
  chunkCounter,  \* XMLChunker.chunkCounter of the pipeline's chunker
  tasks,         \* the async processInitial / processIncremental calls alive
  timer,         \* EmbeddingService.intervalId is set
  isInitialized, \* EmbeddingService.isInitialized
  started,       \* a service process is alive
  scans,         \* scanForChanges calls so far; the clock, in poll intervals
  edits,         \* file-system edits so far
  embedFails,    \* embed rejections so far
  last,          \* history: the processFile call that returned or threw last
  aborted,       \* history: paths whose latest processFile threw
  okPass,        \* history: per path, the latest processFile that returned
  lastChanges,   \* history: the list the latest scanForChanges returned
  dueAtScan,     \* history: the aborted paths that had a file at that scan
  search,        \* the CodeRetrieval.search call of the query process
  call,          \* history: the latest statement run on the chunks table
  scanFailed,    \* history: the scans (by number) that threw
  chunkCall,     \* a chunkFile call of a caller of XMLChunker
  lifecycle,     \* the store handle and the start() / stop() calls of a caller
  watch,         \* a caller of Watcher.scanForChanges: its directory list
  legacy         \* the legacy EmbeddingService.indexFile and its VectorStore

vars == <<fs, fileHashes, rows, nextId, chunkCounter, tasks, timer,
          isInitialized, started, scans, edits, embedFails, last,
          aborted, okPass, lastChanges, dueAtScan, search, call,
          scanFailed, chunkCall, lifecycle, watch, legacy>>

\* the state of the query process and of the store-call history
qvars == <<search, call>>

\* the scans that threw, and the callers outside the running service
cvars == <<scanFailed, chunkCall, lifecycle, watch, legacy>>

Slots == 1..MaxTasks

\* history of a pass: fingerprint and document of the latest processFile of
\* the path that returned, and whether the rows of the path are still the
\* ones it left
NoPrev == [hash |-> NoHash, docId |-> NoFile, same |-> FALSE]

IdleTask ==
  [pc |-> "idle", initial |-> FALSE, changes |-> << >>, ci |-> 0,
   filePath |-> "", fileHash |-> NoHash, docId |-> NoFile, chunks |-> << >>,
   i |-> 0, existingMap |-> {}, chunkIndexToDbId |-> << >>, ts |-> 0,
   emb |-> 0, ins |-> 0, upd |-> 0, processed |-> {}, rowsBefore |-> {},
   prev |-> NoPrev]

\* no search is running; no statement has run
IdleSearch == [pc |-> "idle", query |-> << >>, topK |-> 0, results |-> << >>]
NoCall == [op |-> "none", id |-> 0]

\* the store handle is open; start() was called once, stop() never
NoLifecycle == [dbClosed |-> FALSE, starts |-> 0, stopped |-> FALSE]

\* no caller of scanForChanges outside the pipeline
NoWatch == [dirs |-> << >>, quiet |-> FALSE, quietScans |-> 0, removed |-> {}]

\* no legacy service
NoLegacy ==
  [pc |-> "none", revision |-> 0, mtime |-> 0, store |-> {}, nextId |-> 1,
   lastModified |-> 0, chunks |-> << >>, i |-> 0, before |-> {},
   ops |-> << >>, ret |-> 0, calls |-> 0, touches |-> 0, fails |-> 0]

\* no chunkFile call outside the pipeline
NoChunkCall == [pc |-> "none", doc |-> [bad |-> FALSE, lines |-> << >>],
                chunks |-> << >>]

NoPass ==
  [filePath |-> "", fileHash |-> NoHash, docId |-> NoFile, ok |-> TRUE,
   chunks |-> << >>, failedAt |-> 0, processed |-> {}, emb |-> 0, ins |-> 0,
   upd |-> 0, rowsBefore |-> {}, rowsAfter |-> {}, prev |-> NoPrev,
   chunkIndexToDbId |-> << >>,
   rest |-> << >>, cont |-> [pc |-> "idle", filePath |-> ""]]

\* ------------------------------------------------------------------------
\* Pipeline. A world w is the task running plus the state it shares:
\* [t, rows, nextId, counter, now, last, aborted, okPass]. Each operator
\* runs the code from one await to the next.
\* ------------------------------------------------------------------------
\* processChanges from change t.ci on, up to the file read of the next
\* processFile (pc "read") or the end of the list (pc "done")
RECURSIVE processChanges(_)
processChanges(w) ==
  IF w.t.ci > Len(w.t.changes) THEN [w EXCEPT !.t.pc = "done"]
  ELSE LET change == w.t.changes[w.t.ci] IN
    IF ~change.exists
    THEN processChanges([w EXCEPT
           !.rows = deleteChunksByFile(@, change.filePath),
           !.aborted = @ \ {change.filePath},
           !.t.ci = @ + 1])
    ELSE [w EXCEPT
           !.counter = 0,
           !.t = [IdleTask EXCEPT
                    !.pc = "read", !.initial = w.t.initial,
                    !.changes = w.t.changes, !.ci = w.t.ci,
                    !.filePath = change.filePath, !.fileHash = change.hash,
                    !.i = 1]]

\* processFile returns (ok) or throws into the catch of processChanges
\* (failedAt is the chunk whose embed rejected, 0 if none); the loop of
\* processChanges then goes on. The pass recorded in last keeps the changes
\* that were left in the batch (rest) and where the batch went next (cont)
FinishFile(w, ok, failedAt) ==
  LET t == w.t
      after == getChunksByFile(w.rows, t.filePath)
      pass == [filePath |-> t.filePath, fileHash |-> t.fileHash,
               docId |-> t.docId, ok |-> ok, chunks |-> t.chunks,
               failedAt |-> failedAt, processed |-> t.processed,
               emb |-> t.emb, ins |-> t.ins, upd |-> t.upd,
               rowsBefore |-> t.rowsBefore, rowsAfter |-> after,
               prev |-> t.prev,
               chunkIndexToDbId |-> t.chunkIndexToDbId,
               rest |-> SubSeq(t.changes, t.ci + 1, Len(t.changes)),
               cont |-> [pc |-> "idle", filePath |-> ""]]
      goOn == processChanges([w EXCEPT
                !.aborted = IF ok THEN @ \ {t.filePath} ELSE @ \cup {t.filePath},
                !.okPass = IF ok
                           THEN [@ EXCEPT ![t.filePath] =
                                   [hash |-> t.fileHash, docId |-> t.docId,
                                    rows |-> after]]
                           ELSE @,
                !.t.ci = @ + 1])
  IN [goOn EXCEPT
        !.last = [pass EXCEPT !.cont = [pc |-> goOn.t.pc,
                                        filePath |-> goOn.t.filePath]]]

\* existingMap.get(key)
Existing(t) ==
  {r \in t.existingMap : /\ r.startLine = t.chunks[t.i].startLine
                          /\ r.endLine = t.chunks[t.i].endLine}

\* mutant: the rows left in existingMap after the loop are deleted
RECURSIVE ProcessLoopPurge(_)
ProcessLoopPurge(w) ==
  IF w.t.i > Len(w.t.chunks)
  THEN FinishFile([w EXCEPT !.rows = {r \in @ : r \notin w.t.existingMap}],
                  TRUE, 0)
  ELSE LET chunk == w.t.chunks[w.t.i]
           existing == Existing(w.t)
       IN IF existing = {} \/ (CHOOSE r \in existing : TRUE).fileHash # w.t.fileHash
          THEN [w EXCEPT !.t.pc = "embed", !.t.ts = w.now, !.t.emb = @ + 1]
          ELSE ProcessLoopPurge([w EXCEPT
                 !.t.chunkIndexToDbId =
                    (chunk.chunkIndex :> (CHOOSE r \in existing : TRUE).id) @@ @,
                 !.t.existingMap = @ \ existing,
                 !.t.processed = @ \cup {w.t.i},
                 !.t.i = @ + 1])

\* the for loop of processFile from chunk t.i on, up to the next embed call
\* (pc "embed"; metadata, with its timestamp, is built before the call)
RECURSIVE ProcessLoop(_)
ProcessLoop(w) ==
  IF w.t.i > Len(w.t.chunks) THEN FinishFile(w, TRUE, 0)
  ELSE LET chunk == w.t.chunks[w.t.i]
           existing == Existing(w.t)
       IN IF existing = {} \/ (CHOOSE r \in existing : TRUE).fileHash # w.t.fileHash
          THEN [w EXCEPT !.t.pc = "embed", !.t.ts = w.now, !.t.emb = @ + 1]
          ELSE ProcessLoop([w EXCEPT
                 !.t.chunkIndexToDbId =
                    (chunk.chunkIndex :> (CHOOSE r \in existing : TRUE).id) @@ @,
                 !.t.existingMap = @ \ existing,
                 !.t.processed = @ \cup {w.t.i},
                 !.t.i = @ + 1])

\* new Map(existingChunks.map(...)): of the rows sharing a span the one
\* read last (highest rowid) stays
SpanMap(rs) ==
  {r \in rs : \A q \in rs :
     (q.startLine = r.startLine /\ q.endLine = r.endLine) => q.id <= r.id}

\* processFile when the file read of chunkFile settles: docId is what the
\* read finds
ReadStep(w, docId) ==
  LET t == w.t
      existingChunks == getChunksByFile(w.rows, t.filePath)
  IN IF docId = NoFile \/ Docs[docId].bad
     THEN FinishFile([w EXCEPT !.t.docId = docId,
                               !.t.rowsBefore = existingChunks], FALSE, 0)
     ELSE LET res == chunkFile(Docs[docId], t.filePath, w.counter)
              prev == w.okPass[t.filePath]
          IN ProcessLoop([w EXCEPT
               !.counter = res.counter,
               !.t.docId = docId,
               !.t.chunks = res.chunks,
               !.t.existingMap = SpanMap(existingChunks),
               !.t.rowsBefore = existingChunks,
               !.t.prev = [hash |-> prev.hash, docId |-> prev.docId,
                           same |-> prev.hash # NoHash
                                    /\ prev.rows = existingChunks]])

\* processFile when embed settles: okEmbed is FALSE when it rejects
EmbedStep(w, okEmbed) ==
  LET t == w.t
      chunk == t.chunks[t.i]
      existing == Existing(t)
      parentDbId ==
        IF chunk.parentChunkId # Null /\ chunk.parentChunkId \in DOMAIN t.chunkIndexToDbId
        THEN t.chunkIndexToDbId[chunk.parentChunkId] ELSE Null
      metadata ==
        [filePath |-> chunk.filePath, fileHash |-> t.fileHash,
         resourceName |-> chunk.resourceName, resourceType |-> chunk.resourceType,
         chunkType |-> chunk.chunkType, chunkIndex |-> chunk.chunkIndex,
         startLine |-> chunk.startLine, endLine |-> chunk.endLine,
         parentChunkId |-> parentDbId, timestamp |-> t.ts]
      embedding == embed(chunk.embeddingText)
  IN IF ~okEmbed THEN FinishFile(w, FALSE, t.i)
     ELSE IF existing # {}
     THEN LET id == (CHOOSE r \in existing : TRUE).id
              res == updateChunk(w.rows, id, metadata, embedding)
          IN IF ~res.ok THEN FinishFile(w, FALSE, 0)
             ELSE ProcessLoop([w EXCEPT
                    !.rows = res.rows,
                    !.t.pc = "run",
                    !.t.upd = @ + 1,
                    !.t.chunkIndexToDbId = (chunk.chunkIndex :> id) @@ @,
                    !.t.existingMap = @ \ existing,
                    !.t.processed = @ \cup {t.i},
                    !.t.i = @ + 1])
     ELSE LET res == insertChunk(w.rows, w.nextId, metadata, embedding)
          IN IF ~res.ok THEN FinishFile(w, FALSE, 0)
             ELSE ProcessLoop([w EXCEPT
                    !.rows = res.rows,
                    !.nextId = res.nextId,
                    !.t.pc = "run",
                    !.t.ins = @ + 1,
                    !.t.chunkIndexToDbId = (chunk.chunkIndex :> res.id) @@ @,
                    !.t.processed = @ \cup {t.i},
                    !.t.i = @ + 1])

\* ------------------------------------------------------------------------
\* Actions
\* ------------------------------------------------------------------------
World(t, now) ==
  [t |-> t, rows |-> rows, nextId |-> nextId, counter |-> chunkCounter,
   now |-> now, last |-> last, aborted |-> aborted, okPass |-> okPass]

\* the task in slot ran up to its next await and left world w; a finished
\* processInitial lets start() set the interval timer and isInitialized
Commit(slot, w) ==
  /\ tasks' = [tasks EXCEPT ![slot] = IF w.t.pc = "done" THEN IdleTask ELSE w.t]
  /\ rows' = w.rows
  /\ nextId' = w.nextId
  /\ chunkCounter' = w.counter
  /\ last' = w.last
  /\ aborted' = w.aborted
  /\ okPass' = w.okPass
  /\ IF w.t.pc = "done" /\ w.t.initial
     THEN timer' = TRUE /\ isInitialized' = TRUE
     ELSE UNCHANGED <<timer, isInitialized>>

FreeSlot == CHOOSE s \in Slots : tasks[s].pc = "idle" /\ \A q \in Slots : tasks[q].pc = "idle" => s <= q

\* startService / EmbeddingService.start up to the first await of
\* processChanges inside processInitial
Start ==
  /\ ~started
  /\ scans < MaxScans
  /\ LET scan == scanForChanges(Directories, fs, fileHashes)
         t == [IdleTask EXCEPT !.pc = "run", !.initial = TRUE,
                               !.changes = scan.changes, !.ci = 1]
     IN /\ Commit(1, processChanges(World(t, scans + 1)))
        /\ fileHashes' = scan.fileHashes
        /\ lastChanges' = scan.changes
        /\ dueAtScan' = {p \in aborted : fs[p] # NoFile}
  /\ started' = TRUE
  /\ scans' = scans + 1
  /\ UNCHANGED <<fs, edits, embedFails>>
  /\ UNCHANGED qvars
  /\ UNCHANGED cvars

\* the setInterval callback: processIncremental up to its first await of
\* processChanges; it does not wait for an earlier callback to finish
TimerFire ==
  /\ timer
  /\ scans < MaxScans
  /\ \E s \in Slots : tasks[s].pc = "idle"
  /\ LET scan == scanForChanges(Directories, fs, fileHashes)
         t == [IdleTask EXCEPT !.pc = "run", !.changes = scan.changes, !.ci = 1]
     IN /\ Commit(FreeSlot, processChanges(World(t, scans + 1)))
        /\ fileHashes' = scan.fileHashes
        /\ lastChanges' = scan.changes
        /\ dueAtScan' = {p \in aborted : fs[p] # NoFile}
  /\ scans' = scans + 1
  /\ UNCHANGED <<fs, started, edits, embedFails>>
  /\ UNCHANGED qvars
  /\ UNCHANGED cvars

\* the file read of chunkFile settles
ReadDone(slot) ==
  /\ tasks[slot].pc = "read"
  /\ ~lifecycle.dbClosed
  /\ Commit(slot, ReadStep(World(tasks[slot], scans),
                           fs[tasks[slot].filePath]))
  /\ UNCHANGED <<fs, fileHashes, started, scans, edits, embedFails,
                 lastChanges, dueAtScan>>
  /\ UNCHANGED qvars
  /\ UNCHANGED cvars

\* Embedder.embed resolves
EmbedDone(slot) ==
  /\ tasks[slot].pc = "embed"
  /\ ~lifecycle.dbClosed
  /\ Commit(slot, EmbedStep(World(tasks[slot], scans), TRUE))
  /\ UNCHANGED <<fs, fileHashes, started, scans, edits, embedFails,
                 lastChanges, dueAtScan>>
  /\ UNCHANGED qvars
  /\ UNCHANGED cvars

\* Embedder.embed rejects
EmbedFail(slot) ==
  /\ tasks[slot].pc = "embed"
  /\ ~lifecycle.dbClosed
  /\ embedFails < MaxEmbedFails
  /\ Commit(slot, EmbedStep(World(tasks[slot], scans), FALSE))
  /\ embedFails' = embedFails + 1
  /\ UNCHANGED <<fs, fileHashes, started, scans, edits, lastChanges,
                 dueAtScan>>
  /\ UNCHANGED qvars
  /\ UNCHANGED cvars

\* a file is created, rewritten or deleted
Edit(p, d) ==
  /\ edits < MaxEdits
  /\ d # fs[p]
  /\ fs' = [fs EXCEPT ![p] = d]
  /\ edits' = edits + 1
  /\ UNCHANGED <<fileHashes, rows, nextId, chunkCounter, tasks, timer,
                 isInitialized, started, scans, embedFails, last,
                 aborted, okPass, lastChanges, dueAtScan>>
  /\ UNCHANGED qvars
  /\ UNCHANGED cvars

\* SIGINT / SIGTERM: stop() and process.exit; the database file stays
Exit ==
  /\ started
  /\ scans < MaxScans
  /\ started' = FALSE
  /\ tasks' = [s \in Slots |-> IdleTask]
  /\ timer' = FALSE
  /\ isInitialized' = FALSE
  /\ fileHashes' = << >>
  /\ chunkCounter' = 0
  /\ UNCHANGED <<fs, rows, nextId, scans, edits, embedFails, last,
                 aborted, okPass, lastChanges, dueAtScan>>
  /\ UNCHANGED qvars
  /\ UNCHANGED cvars

\* mutant: the callback has no try/catch; the unhandled rejection ends the
\* process
callbackCatchesNone == FALSE

\* the try/catch of the setInterval callback around processIncremental
callbackCatches == TRUE

\* the setInterval callback when scanForChanges rejects (a file or a
\* directory is gone between readdir and the read): this.fileHashes is not
\* assigned and processChanges is not reached
ScanFail ==
  /\ timer
  /\ scans < MaxScans
  /\ Cardinality(scanFailed) < MaxScanFails
  /\ scans' = scans + 1
  /\ scanFailed' = scanFailed \cup {scans + 1}
  /\ IF callbackCatches
     THEN UNCHANGED <<tasks, timer, isInitialized, started, fileHashes,
                      chunkCounter>>
     ELSE /\ started' = FALSE
          /\ tasks' = [s \in Slots |-> IdleTask]
          /\ timer' = FALSE
          /\ isInitialized' = FALSE
          /\ fileHashes' = << >>
          /\ chunkCounter' = 0
  /\ UNCHANGED <<fs, rows, nextId, edits, embedFails, last, aborted, okPass,
                 lastChanges, dueAtScan, chunkCall, lifecycle, watch, legacy>>
  /\ UNCHANGED qvars

\* mutant: start() does not test isInitialized
alreadyRunningNever == FALSE

\* the test at the top of start()
alreadyRunning == isInitialized

\* a start() call, none waiting in processInitial, has not returned yet
Starting == \E s \in Slots : tasks[s].initial /\ tasks[s].pc # "idle"

\* start() is called on the service that startService made, with no other
\* start() call in progress: it returns at once when the service is running,
\* and else runs processInitial up to its first await of processChanges
StartAgain ==
  /\ started
  /\ ~Starting
  /\ lifecycle.starts < MaxStarts
  /\ IF alreadyRunning
     THEN /\ lifecycle' = [lifecycle EXCEPT !.starts = @ + 1]
          /\ UNCHANGED <<fileHashes, rows, nextId, chunkCounter, tasks, timer,
                         isInitialized, scans, last, aborted, okPass,
                         lastChanges, dueAtScan>>
     ELSE /\ scans < MaxScans
          /\ \E s \in Slots : tasks[s].pc = "idle"
          /\ LET scan == scanForChanges(Directories, fs, fileHashes)
                 t == [IdleTask EXCEPT !.pc = "run", !.initial = TRUE,
                                       !.changes = scan.changes, !.ci = 1]
             IN /\ Commit(FreeSlot, processChanges(World(t, scans + 1)))
                /\ fileHashes' = scan.fileHashes
                /\ lastChanges' = scan.changes
                /\ dueAtScan' = {p \in aborted : fs[p] # NoFile}
          /\ scans' = scans + 1
          /\ lifecycle' = [lifecycle EXCEPT !.starts = @ + 1, !.stopped = FALSE]
  /\ UNCHANGED <<fs, started, edits, embedFails, scanFailed, chunkCall, watch,
                 legacy>>
  /\ UNCHANGED qvars

\* stop() is called and returns; the process lives on and the calls that are
\* waiting go on afterwards
Stop ==
  /\ started
  /\ timer' = FALSE
  /\ isInitialized' = FALSE
  /\ lifecycle' = [lifecycle EXCEPT !.dbClosed = TRUE, !.stopped = TRUE]
  /\ UNCHANGED <<fs, fileHashes, rows, nextId, chunkCounter, tasks, started,
                 scans, edits, embedFails, last, aborted, okPass, lastChanges,
                 dueAtScan, scanFailed, chunkCall, watch, legacy>>
  /\ UNCHANGED qvars

\* processFile when its file read settles after the store was closed:
\* chunkFile returns or throws, then getChunksByFile throws
ReadStepClosed(w, docId) ==
  IF docId = NoFile \/ Docs[docId].bad
  THEN FinishFile([w EXCEPT !.t.docId = docId], FALSE, 0)
  ELSE LET res == chunkFile(Docs[docId], w.t.filePath, w.counter)
       IN FinishFile([w EXCEPT !.counter = res.counter,
                               !.t.docId = docId,
                               !.t.chunks = res.chunks], FALSE, 0)

\* the file read of chunkFile settles after stop()
ReadClosed(slot) ==
  /\ tasks[slot].pc = "read"
  /\ lifecycle.dbClosed
  /\ Commit(slot, ReadStepClosed(World(tasks[slot], scans),
                                 fs[tasks[slot].filePath]))
  /\ UNCHANGED <<fs, fileHashes, started, scans, edits, embedFails,
                 lastChanges, dueAtScan>>
  /\ UNCHANGED qvars
  /\ UNCHANGED cvars

\* embed settles after stop(): it rejects, or the statement that follows it
\* throws on the closed store
EmbedClosed(slot) ==
  /\ tasks[slot].pc = "embed"
  /\ lifecycle.dbClosed
  /\ Commit(slot, FinishFile(World(tasks[slot], scans), FALSE, 0))
  /\ UNCHANGED <<fs, fileHashes, started, scans, edits, embedFails,
                 lastChanges, dueAtScan>>
  /\ UNCHANGED qvars
  /\ UNCHANGED cvars

\* the state of a service and a store just constructed
InitService ==
  /\ fileHashes = << >>
  /\ rows = {}
  /\ nextId = 1
  /\ chunkCounter = 0
  /\ tasks = [s \in Slots |-> IdleTask]
  /\ timer = FALSE
  /\ isInitialized = FALSE
  /\ started = FALSE
  /\ scans = 0
  /\ edits = 0
  /\ embedFails = 0
  /\ last = NoPass
  /\ aborted = {}
  /\ okPass = [p \in Paths |-> [hash |-> NoHash, docId |-> NoFile, rows |-> {}]]
  /\ lastChanges = << >>
  /\ dueAtScan = {}
  /\ search = IdleSearch
  /\ call = NoCall
  /\ scanFailed = {}
  /\ lifecycle = NoLifecycle
  /\ chunkCall = NoChunkCall
  /\ watch = NoWatch
  /\ legacy = NoLegacy

\* the watched directories are empty when the service is first started
Init ==
  /\ fs = [p \in Paths |-> NoFile]
  /\ InitService

Next ==
  \/ Start
  \/ TimerFire
  \/ \E slot \in Slots : ReadDone(slot)
  \/ \E slot \in Slots : EmbedDone(slot)
  \/ \E slot \in Slots : EmbedFail(slot)
  \/ \E p \in Paths : \E d \in {NoFile} \cup DocsAt(p) : Edit(p, d)
  \/ Exit

Spec == Init /\ [][Next]_vars

\* ------------------------------------------------------------------------
\* The service over one document that goes back and forth between the two
\* nested revisions; the document exists when the service is first started
\* ------------------------------------------------------------------------
InitRevision ==
  /\ fs = [p \in Paths |-> IF p = "BankIntegration/apis/A.xml" THEN 6 ELSE NoFile]
  /\ InitService

NextRevision ==
  \/ Start
  \/ TimerFire
  \/ \E slot \in Slots : ReadDone(slot)
  \/ \E slot \in Slots : EmbedDone(slot)
  \/ \E slot \in Slots : EmbedFail(slot)
  \/ \E d \in {NoFile} \cup NestDocIds : Edit("BankIntegration/apis/A.xml", d)
  \/ Exit

RevisionSpec == InitRevision /\ [][NextRevision]_vars

\* ------------------------------------------------------------------------
\* The service over one document that is rewritten in place to a revision
\* without fragments (unparsable, or with no classified tag), rewritten
\* back, or deleted; the document exists when the service is first started
\* ------------------------------------------------------------------------
InitInPlace ==
  /\ fs = [p \in Paths |-> IF p = "BankIntegration/apis/A.xml" THEN 1 ELSE NoFile]
  /\ InitService

NextInPlace ==
  \/ Start
  \/ TimerFire
  \/ \E slot \in Slots : ReadDone(slot)
  \/ \E slot \in Slots : EmbedDone(slot)
  \/ \E slot \in Slots : EmbedFail(slot)
  \/ \E d \in {NoFile, 1} \cup InPlaceDocIds : Edit("BankIntegration/apis/A.xml", d)
  \/ Exit

InPlaceSpec == InitInPlace /\ [][NextInPlace]_vars

\* ------------------------------------------------------------------------
\* The service over one document that is rewritten to an unparsable revision
\* or deleted, with poll cycles whose scan throws
\* ------------------------------------------------------------------------
NextPoll ==
  \/ Start
  \/ TimerFire
  \/ ScanFail
  \/ \E slot \in Slots : ReadDone(slot)
  \/ \E slot \in Slots : EmbedDone(slot)
  \/ \E slot \in Slots : EmbedFail(slot)
  \/ \E d \in {NoFile, 1, 5} : Edit("BankIntegration/apis/A.xml", d)
  \/ Exit

PollSpec == InitInPlace /\ [][NextPoll]_vars

\* ------------------------------------------------------------------------
\* The service used through its start() and stop() methods by a caller that
\* does not end the process; the document is rewritten but never deleted
\* ------------------------------------------------------------------------
NextLifecycle ==
  \/ Start
  \/ StartAgain
  \/ Stop
  \/ TimerFire
  \/ \E slot \in Slots : ReadDone(slot)
  \/ \E slot \in Slots : EmbedDone(slot)
  \/ \E slot \in Slots : ReadClosed(slot)
  \/ \E slot \in Slots : EmbedClosed(slot)
  \/ \E d \in {1, 3} : Edit("BankIntegration/apis/A.xml", d)

LifecycleSpec == InitInPlace /\ [][NextLifecycle]_vars

\* ------------------------------------------------------------------------
\* A Watcher called on its own with one list of directories, over files that
\* are created, rewritten and deleted between the calls. watch.quiet tells
\* that no file was touched since the last call; watch.quietScans counts the
\* calls made in that state and watch.removed collects the paths reported
\* removed
\* ------------------------------------------------------------------------
DirectoryLists ==
  { Directories,
    <<"Hotelintegration", "BankIntegration">>,
    <<"BankIntegration">>,
    <<"BankIntegration", "BankIntegration">>,
    <<"BankIntegration", "BankIntegration/apis">> }

\* no service is started, no file exists, the store is empty
InitIdle ==
  /\ fs = [p \in Paths |-> NoFile]
  /\ fileHashes = << >>
  /\ rows = {}
  /\ nextId = 1
  /\ chunkCounter = 0
  /\ tasks = [s \in Slots |-> IdleTask]
  /\ timer = FALSE
  /\ isInitialized = FALSE
  /\ started = FALSE
  /\ scans = 0
  /\ edits = 0
  /\ embedFails = 0
  /\ last = NoPass
  /\ aborted = {}
  /\ okPass = [p \in Paths |-> [hash |-> NoHash, docId |-> NoFile, rows |-> {}]]
  /\ lastChanges = << >>
  /\ dueAtScan = {}
  /\ search = IdleSearch
  /\ call = NoCall
  /\ scanFailed = {}
  /\ lifecycle = NoLifecycle
  /\ chunkCall = NoChunkCall

InitWatcher ==
  /\ InitIdle
  /\ legacy = NoLegacy
  /\ \E dirs \in DirectoryLists : watch = [NoWatch EXCEPT !.dirs = dirs]

\* one scanForChanges(directories) call, from its start to its return
Scan ==
  /\ scans < MaxScans
  /\ LET scan == scanForChanges(watch.dirs, fs, fileHashes)
     IN /\ fileHashes' = scan.fileHashes
        /\ lastChanges' = scan.changes
        /\ watch' = [watch EXCEPT
              !.quiet = TRUE,
              !.quietScans = IF watch.quiet THEN @ + 1 ELSE @,
              !.removed = @ \cup {scan.changes[j].filePath :
                                    j \in {k \in 1..Len(scan.changes) :
                                             ~scan.changes[k].exists}}]
  /\ scans' = scans + 1
  /\ UNCHANGED <<fs, rows, nextId, chunkCounter, tasks, timer, isInitialized,
                 started, edits, embedFails, last, aborted, okPass, dueAtScan,
                 scanFailed, chunkCall, lifecycle, legacy>>
  /\ UNCHANGED qvars

\* a file is created, rewritten or deleted between two calls
Touch(p, d) ==
  /\ edits < MaxEdits
  /\ d # fs[p]
  /\ fs' = [fs EXCEPT ![p] = d]
  /\ edits' = edits + 1
  /\ watch' = [watch EXCEPT !.quiet = FALSE]
  /\ UNCHANGED <<fileHashes, rows, nextId, chunkCounter, tasks, timer,
                 isInitialized, started, scans, embedFails, last, aborted,
                 okPass, lastChanges, dueAtScan, scanFailed, chunkCall,
                 lifecycle, legacy>>
  /\ UNCHANGED qvars

NextWatcher ==
  \/ Scan
  \/ \E p \in Paths : \E d \in {NoFile} \cup DocsAt(p) : Touch(p, d)

WatcherSpec == InitWatcher /\ [][NextWatcher]_vars

\* ------------------------------------------------------------------------
\* The legacy EmbeddingService: indexFile called for one file, one call at
\* a time, over a VectorStore that also holds a chunk of another file. The
\* file is rewritten between the steps of a call and between calls.
\* legacy.before and legacy.ops record the store at the start of the call
\* and the statements the call has run on it
\* ------------------------------------------------------------------------
LegacyFile == "BankIntegration/apis/A.xml"
OtherFile == "Hotelintegration/sequences/B.xml"

\* what XMLCodeChunker.chunkFile returns for each revision of the file, as
\* spans; revision 3 fails to parse or holds no element, and chunkFile
\* returns []
LegacyChunks(revision) ==
  CASE revision = 1 -> << <<1, 5>>, <<2, 3>> >>
    [] revision = 2 -> << <<1, 3>> >>
    [] OTHER -> << >>
LegacyRevisions == 1..3

\* the rows of a file, as getAllEmbeddings().filter(...) returns them
FileRows(store, filePath) == {r \in store : r.filePath = filePath}

\* existingChunks[0]: the rows are read in rowid order
FirstRow(rs) == CHOOSE r \in rs : \A q \in rs : r.id <= q.id

\* mutant: indexFile never skips
needsReindexAlways(existingChunks, lastModified) == TRUE

\* the negation of the skip test of indexFile
needsReindex(existingChunks, lastModified) ==
  ~(existingChunks # {} /\ FirstRow(existingChunks).lastModified >= lastModified)

\* VectorStore.insertChunk: INSERT OR REPLACE under
\* UNIQUE(file_path, start_line, end_line)
legacyInsertChunk(store, id, filePath, span, lastModified) ==
  {r \in store : ~(r.filePath = filePath /\ r.span = span)}
    \cup {[id |-> id, filePath |-> filePath, span |-> span,
           lastModified |-> lastModified]}

\* VectorStore.deleteChunksByFile
legacyDeleteChunksByFile(store, filePath) ==
  {r \in store : r.filePath # filePath}

InitLegacy ==
  /\ InitIdle
  /\ watch = NoWatch
  /\ \E revision \in LegacyRevisions :
        legacy = [NoLegacy EXCEPT
                    !.pc = "idle", !.revision = revision, !.mtime = 1,
                    !.store = {[id |-> 1, filePath |-> OtherFile,
                                span |-> <<1, 1>>, lastModified |-> 1]},
                    !.nextId = 2]

\* indexFile(filePath) from its stat to the file read of chunkFile, or to
\* its return when the file is skipped
IndexCall ==
  /\ legacy.pc \in {"idle", "done"}
  /\ legacy.calls < MaxIndexCalls
  /\ LET lastModified == legacy.mtime
         existingChunks == FileRows(legacy.store, LegacyFile)
         called == [legacy EXCEPT !.calls = @ + 1, !.before = legacy.store,
                                  !.lastModified = lastModified,
                                  !.chunks = << >>, !.i = 0,
                                  !.ops = << >>, !.ret = 0]
     IN legacy' =
          IF ~needsReindex(existingChunks, lastModified)
          THEN [called EXCEPT !.pc = "done", !.ret = 0]
          ELSE IF existingChunks # {}
          THEN [called EXCEPT
                  !.pc = "chunk",
                  !.store = legacyDeleteChunksByFile(@, LegacyFile),
                  !.ops = <<[op |-> "delete", span |-> <<0, 0>>]>>]
          ELSE [called EXCEPT !.pc = "chunk"]
  /\ UNCHANGED <<fs, fileHashes, rows, nextId, chunkCounter, tasks, timer,
                 isInitialized, started, scans, edits, embedFails, last,
                 aborted, okPass, lastChanges, dueAtScan, scanFailed,
                 chunkCall, lifecycle, watch>>
  /\ UNCHANGED qvars

\* chunkFile returns: the file is read as it is now
IndexChunked ==
  /\ legacy.pc = "chunk"
  /\ LET chunks == LegacyChunks(legacy.revision)
     IN legacy' =
          IF Len(chunks) = 0
          THEN [legacy EXCEPT !.pc = "done", !.ret = 0]
          ELSE [legacy EXCEPT !.pc = "embed", !.chunks = chunks, !.i = 1]
  /\ UNCHANGED <<fs, fileHashes, rows, nextId, chunkCounter, tasks, timer,
                 isInitialized, started, scans, edits, embedFails, last,
                 aborted, okPass, lastChanges, dueAtScan, scanFailed,
                 chunkCall, lifecycle, watch>>
  /\ UNCHANGED qvars

\* the loop of indexFile goes on to the next chunk, or indexFile returns
IndexNext(l) ==
  IF l.i >= Len(l.chunks)
  THEN [l EXCEPT !.pc = "done", !.ret = Len(l.chunks)]
  ELSE [l EXCEPT !.i = @ + 1]

\* generateEmbedding resolves and the chunk is stored
IndexEmbedded ==
  /\ legacy.pc = "embed"
  /\ legacy' = IndexNext([legacy EXCEPT
        !.store = legacyInsertChunk(@, legacy.nextId, LegacyFile,
                                    legacy.chunks[legacy.i],
                                    legacy.lastModified),
        !.nextId = @ + 1,
        !.ops = Append(@, [op |-> "insert", span |-> legacy.chunks[legacy.i]])])
  /\ UNCHANGED <<fs, fileHashes, rows, nextId, chunkCounter, tasks, timer,
                 isInitialized, started, scans, edits, embedFails, last,
                 aborted, okPass, lastChanges, dueAtScan, scanFailed,
                 chunkCall, lifecycle, watch>>
  /\ UNCHANGED qvars

\* generateEmbedding rejects: the catch inside the loop logs it
IndexEmbedFailed ==
  /\ legacy.pc = "embed"
  /\ legacy.fails < MaxEmbedFails
  /\ legacy' = IndexNext([legacy EXCEPT !.fails = @ + 1])
  /\ UNCHANGED <<fs, fileHashes, rows, nextId, chunkCounter, tasks, timer,
                 isInitialized, started, scans, edits, embedFails, last,
                 aborted, okPass, lastChanges, dueAtScan, scanFailed,
                 chunkCall, lifecycle, watch>>
  /\ UNCHANGED qvars

\* the file is written: new content, and a modification time that a copy or
\* a restore can also set back
LegacyTouch(revision, mtime) ==
  /\ legacy.touches < MaxTouches
  /\ <<revision, mtime>> # <<legacy.revision, legacy.mtime>>
  /\ legacy' = [legacy EXCEPT !.revision = revision, !.mtime = mtime,
                              !.touches = @ + 1]
  /\ UNCHANGED <<fs, fileHashes, rows, nextId, chunkCounter, tasks, timer,
                 isInitialized, started, scans, edits, embedFails, last,
                 aborted, okPass, lastChanges, dueAtScan, scanFailed,
                 chunkCall, lifecycle, watch>>
  /\ UNCHANGED qvars

NextLegacy ==
  \/ IndexCall
  \/ IndexChunked
  \/ IndexEmbedded
  \/ IndexEmbedFailed
  \/ \E revision \in LegacyRevisions : \E mtime \in 1..MaxMtime :
        LegacyTouch(revision, mtime)

LegacySpec == InitLegacy /\ [][NextLegacy]_vars

\* ------------------------------------------------------------------------
\* XMLChunker.chunkFile called on its own, over generated documents: a root
\* api element holding up to MaxBody lines, one tag per line or an element
\* opened and closed on one line
\* ------------------------------------------------------------------------
BodyLines ==
  { <<S("log", "")>>, <<O("log", "")>>, <<C("log")>>,
    <<O("inSequence", "")>>, <<C("inSequence")>>,
    <<O("then", "")>>, <<C("then")>>,
    <<B("respond")>>,
    <<O("api", "b")>>, <<C("api")>>,
    <<O("resource", "")>>, <<C("resource")>>,
    <<O("inSequence", ""), C("inSequence")>> }

\* the tokens nest properly: every close matches the latest open
RECURSIVE Balanced(_, _)
Balanced(toks, open) ==
  IF toks = << >> THEN open = << >>
  ELSE LET h == Head(toks) IN
    CASE h.k = "open" -> Balanced(Tail(toks), Append(open, h.t))
      [] h.k = "close" ->
           /\ open # << >>
           /\ open[Len(open)] = h.t
           /\ Balanced(Tail(toks), SubSeq(open, 1, Len(open) - 1))
      [] OTHER -> Balanced(Tail(toks), open)

Bodies ==
  {b \in UNION {[1..n -> BodyLines] : n \in 0..MaxBody} :
     Balanced(TokensOf(b, 1, Len(b)), << >>)}

GenDocs ==
  {[bad |-> FALSE, lines |-> << <<O("api", "a")>> >> \o b \o << <<C("api")>> >>] :
     b \in Bodies}

\* a caller holds a document and a fresh XMLChunker
InitChunk ==
  /\ fs = [p \in Paths |-> NoFile]
  /\ fileHashes = << >>
  /\ rows = {}
  /\ nextId = 1
  /\ chunkCounter = 0
  /\ tasks = [s \in Slots |-> IdleTask]
  /\ timer = FALSE
  /\ isInitialized = FALSE
  /\ started = FALSE
  /\ scans = 0
  /\ edits = 0
  /\ embedFails = 0
  /\ last = NoPass
  /\ aborted = {}
  /\ okPass = [p \in Paths |-> [hash |-> NoHash, docId |-> NoFile, rows |-> {}]]
  /\ lastChanges = << >>
  /\ dueAtScan = {}
  /\ search = IdleSearch
  /\ call = NoCall
  /\ scanFailed = {}
  /\ lifecycle = NoLifecycle
  /\ watch = NoWatch
  /\ legacy = NoLegacy
  /\ \E d \in GenDocs : chunkCall = [pc |-> "ready", doc |-> d, chunks |-> << >>]

chunkVars ==
  <<fs, fileHashes, rows, nextId, tasks, timer, isInitialized, started, scans,
    edits, embedFails, last, aborted, okPass, lastChanges, dueAtScan, search,
    call, scanFailed, lifecycle, watch, legacy>>

\* chunkFile is called: the counter is reset and the file read awaited
ChunkCall ==
  /\ chunkCall.pc \in {"ready", "done"}
  /\ chunkCounter' = 0
  /\ chunkCall' = [chunkCall EXCEPT !.pc = "read", !.chunks = << >>]
  /\ UNCHANGED chunkVars

\* the file read settles: parse, walk, return the chunks
ChunkReturn ==
  /\ chunkCall.pc = "read"
  /\ LET res == chunkFile(chunkCall.doc, "BankIntegration/apis/A.xml", chunkCounter)
     IN /\ chunkCounter' = res.counter
        /\ chunkCall' = [chunkCall EXCEPT !.pc = "done", !.chunks = res.chunks]
  /\ UNCHANGED chunkVars

NextChunk == ChunkCall \/ ChunkReturn

ChunkSpec == InitChunk /\ [][NextChunk]_vars

\* ------------------------------------------------------------------------
\* SQLiteDB.cosineSimilarity and CodeRetrieval.search. A vector is a short
\* sequence of integers; a similarity is NaN or the real num / sqrt(den2).
\* ------------------------------------------------------------------------
Vectors == {<<0, 0>>, <<1, 0>>, <<1, 1>>}

NaN == [nan |-> TRUE, num |-> 0, den2 |-> 0]
Zero == [nan |-> FALSE, num |-> 0, den2 |-> 1]

\* the three sums of the loop of computeCosineSimilarity, from index i on
RECURSIVE SumProducts(_, _, _)
SumProducts(a, b, i) ==
  IF i > Len(a) THEN 0 ELSE a[i] * b[i] + SumProducts(a, b, i + 1)

\* dotProduct / (sqrt(normA) * sqrt(normB)): 0 / 0 is NaN
computeCosineSimilarity(a, b) ==
  LET dotProduct == SumProducts(a, b, 1)
      normA == SumProducts(a, a, 1)
      normB == SumProducts(b, b, 1)
  IN IF normA * normB = 0 THEN NaN
     ELSE [nan |-> FALSE, num |-> dotProduct, den2 |-> normA * normB]

\* the order of two similarities that are numbers
Abs(n) == IF n < 0 THEN -n ELSE n
Less(x, y) == x.num * Abs(x.num) * y.den2 < y.num * Abs(y.num) * x.den2
Same(x, y) == x.num * Abs(x.num) * y.den2 = y.num * Abs(y.num) * x.den2

\* the comparator (a, b) => b.similarity - a.similarity as sort reads it:
\* its sign, a NaN counting as +0
Compare(a, b) ==
  IF a.similarity.nan \/ b.similarity.nan THEN 0
  ELSE IF Less(a.similarity, b.similarity) THEN 1
  ELSE IF Less(b.similarity, a.similarity) THEN -1
  ELSE 0

\* getAllChunks: SELECT * FROM chunks, the rows in rowid order
RECURSIVE getAllChunks(_)
getAllChunks(rs) ==
  IF rs = {} THEN << >>
  ELSE LET r == CHOOSE q \in rs : \A o \in rs : q.id <= o.id
       IN <<r>> \o getAllChunks(rs \ {r})

\* a stable sort by the comparator: each element goes behind the elements
\* that do not sort after it
RECURSIVE InsertSorted(_, _)
InsertSorted(sorted, x) ==
  IF sorted = << >> THEN <<x>>
  ELSE IF Compare(sorted[Len(sorted)], x) > 0
       THEN Append(InsertSorted(SubSeq(sorted, 1, Len(sorted) - 1), x),
                   sorted[Len(sorted)])
       ELSE Append(sorted, x)

RECURSIVE StableSort(_)
StableSort(seq) ==
  IF seq = << >> THEN << >>
  ELSE InsertSorted(StableSort(SubSeq(seq, 1, Len(seq) - 1)), seq[Len(seq)])

\* the comparator is consistent over the elements: comparing equal is
\* transitive
Consistent(seq) ==
  \A i, j, k \in 1..Len(seq) :
     (Compare(seq[i], seq[j]) = 0 /\ Compare(seq[j], seq[k]) = 0)
        => Compare(seq[i], seq[k]) = 0

Orders(n) == {p \in [1..n -> 1..n] : \A i, j \in 1..n : p[i] = p[j] => i = j}

\* Array.prototype.sort: the stable order when the comparator is consistent,
\* an implementation-defined order otherwise
sort(seq) ==
  IF Consistent(seq) THEN {StableSort(seq)}
  ELSE {[i \in 1..Len(seq) |-> seq[p[i]]] : p \in Orders(Len(seq))}

\* SQLiteDB.cosineSimilarity: the lists it can return
cosineSimilarity(rs, embedding) ==
  LET allChunks == getAllChunks(rs)
      results == [i \in 1..Len(allChunks) |->
                    [id |-> allChunks[i].id,
                     filePath |-> allChunks[i].filePath,
                     chunkIndex |-> allChunks[i].chunkIndex,
                     parentChunkId |-> allChunks[i].parentChunkId,
                     similarity |->
                       computeCosineSimilarity(embedding, allChunks[i].embedding)]]
  IN sort(results)

\* results.slice(0, topK)
slice(seq, topK) == SubSeq(seq, 1, IF topK < Len(seq) THEN topK ELSE Len(seq))

\* mutant: an empty store is reported as an error
searchThrowsOnEmpty(rs, queryEmbedding, topK) ==
  IF rs = {} THEN {[pc |-> "error", results |-> << >>]}
  ELSE {[pc |-> "done", results |-> slice(ranked, topK)] :
          ranked \in cosineSimilarity(rs, queryEmbedding)}

\* CodeRetrieval.search after its embed resolved: what it can return
searchReturns(rs, queryEmbedding, topK) ==
  {[pc |-> "done", results |-> slice(ranked, topK)] :
     ranked \in cosineSimilarity(rs, queryEmbedding)}

\* mutant: the schema script drops the table
initializeDrop(rs) == {}

\* SQLiteDB.initialize: CREATE TABLE IF NOT EXISTS keeps the rows
initialize(rs) == rs

\* ------------------------------------------------------------------------
\* The store interface called statement by statement; traced statements are
\* recorded in call. StoreSpec is the interface alone, QuerySpec has a query
\* process next to it.
\* ------------------------------------------------------------------------
serviceVars == <<fs, fileHashes, chunkCounter, tasks, timer, isInitialized,
                 started, scans, edits, embedFails, last, aborted, okPass,
                 lastChanges, dueAtScan, scanFailed, chunkCall, lifecycle,
                 watch, legacy>>

\* the metadata a caller passes for the chunk numbered chunkIndex
StoreMd(filePath, chunkIndex) ==
  [filePath |-> filePath, fileHash |-> computeHash(1), resourceName |-> "api",
   resourceType |-> "api", chunkType |-> "api", chunkIndex |-> chunkIndex,
   startLine |-> 1, endLine |-> 1, parentChunkId |-> Null, timestamp |-> 0]

\* the statement is recorded when traced
Trace(traced, op, id) ==
  call' = IF traced THEN [op |-> op, id |-> id] ELSE call

\* SQLiteDB.insertChunk returns, for a chunk of the first document
DbInsert(embedding, traced) ==
  /\ nextId <= MaxIds
  /\ LET res == insertChunk(rows, nextId,
                            StoreMd("BankIntegration/apis/A.xml", nextId),
                            embedding)
     IN /\ res.ok
        /\ rows' = res.rows
        /\ nextId' = res.nextId
        /\ Trace(traced, "insert", res.id)
  /\ UNCHANGED <<search, serviceVars>>

\* SQLiteDB.updateChunk returns; id is any id, of a row or not, and the
\* metadata names the second document
DbUpdate(id, embedding, traced) ==
  /\ LET res == updateChunk(rows, id,
                            StoreMd("Hotelintegration/sequences/B.xml", id),
                            embedding)
     IN res.ok /\ rows' = res.rows
  /\ Trace(traced, "update", id)
  /\ UNCHANGED <<nextId, search, serviceVars>>

\* SQLiteDB.deleteChunksByFile returns
DbDelete(filePath, traced) ==
  /\ rows' = deleteChunksByFile(rows, filePath)
  /\ Trace(traced, "delete", 0)
  /\ UNCHANGED <<nextId, search, serviceVars>>

\* new CodeRetrieval(): its SQLiteDB runs the schema script on the database
Open ==
  /\ search.pc = "idle"
  /\ search' = [search EXCEPT !.pc = "ready"]
  /\ rows' = initialize(rows)
  /\ UNCHANGED <<nextId, call, serviceVars>>

\* CodeRetrieval.search is called and awaits the embedding of the query
SearchCall(queryEmbedding, topK) ==
  /\ search.pc = "ready"
  /\ search' = [search EXCEPT !.pc = "embed", !.query = queryEmbedding,
                              !.topK = topK]
  /\ UNCHANGED <<rows, nextId, call, serviceVars>>

\* the embedding resolves: search ranks what the store holds now and returns
SearchReturn ==
  /\ search.pc = "embed"
  /\ \E out \in searchReturns(rows, search.query, search.topK) :
        search' = [search EXCEPT !.pc = out.pc, !.results = out.results]
  /\ UNCHANGED <<rows, nextId, call, serviceVars>>

\* the embedding rejects: search rejects
SearchThrow ==
  /\ search.pc = "embed"
  /\ search' = [search EXCEPT !.pc = "rejected"]
  /\ UNCHANGED <<rows, nextId, call, serviceVars>>

NextStore ==
  \/ \E v \in Vectors : DbInsert(v, TRUE)
  \/ \E id \in 1..(MaxIds + 1) : \E v \in Vectors : DbUpdate(id, v, TRUE)
  \/ \E p \in Paths : DbDelete(p, TRUE)

StoreSpec == Init /\ [][NextStore]_vars

NextQuery ==
  \/ \E v \in Vectors : DbInsert(v, FALSE)
  \/ \E id \in 1..(MaxIds + 1) : \E v \in Vectors : DbUpdate(id, v, FALSE)
  \/ \E p \in Paths : DbDelete(p, FALSE)
  \/ Open
  \/ \E q \in Vectors : \E k \in 0..MaxTopK : SearchCall(q, k)
  \/ SearchReturn
  \/ SearchThrow

QuerySpec == Init /\ [][NextQuery]_vars

\* ------------------------------------------------------------------------
\* Properties
\* ------------------------------------------------------------------------
Spans(chunks) == {<<chunks[i].startLine, chunks[i].endLine>> : i \in 1..Len(chunks)}
SpanOf(r) == <<r.startLine, r.endLine>>
Ran(pass) == pass.filePath # ""

\* C1: a processFile(path, fp) that starts from the rows a successful
\* processFile(path, fp) left, with the document unchanged, calls embed,
\* insertChunk and updateChunk zero times and returns without error.
Rerun(pass) ==
  /\ Ran(pass) /\ pass.prev.same
  /\ pass.prev.hash = pass.fileHash /\ pass.prev.docId = pass.docId
C1_Idempotent ==
  Rerun(last) =>
     (last.ok /\ last.emb = 0 /\ last.ins = 0 /\ last.upd = 0)

\* C2: when processFile returns, no row that was persisted for the path
\* before the pass with a span the new chunking does not produce is left.
C2_ObsoleteDeleted ==
  (Ran(last) /\ last.ok) =>
     \A r \in last.rowsBefore :
        SpanOf(r) \notin Spans(last.chunks) =>
           ~\E q \in last.rowsAfter : q.id = r.id

\* the chunks of the pass whose text differs from what the matching row embeds
ChangedChunks(pass) ==
  {i \in 1..Len(pass.chunks) :
     \E r \in pass.rowsBefore :
        /\ SpanOf(r) = <<pass.chunks[i].startLine, pass.chunks[i].endLine>>
        /\ r.embedding # embed(pass.chunks[i].embeddingText)}

\* the pass reconciled the N fragments the previous revision left, matched
\* one to one by span, under a new fingerprint, and exactly one text differs
MinimalDiffCase(pass) ==
  /\ Ran(pass) /\ pass.ok /\ pass.prev.same
  /\ Len(pass.chunks) > 1
  /\ Cardinality(pass.rowsBefore) = Len(pass.chunks)
  /\ Cardinality(Spans(pass.chunks)) = Len(pass.chunks)
  /\ {SpanOf(r) : r \in pass.rowsBefore} = Spans(pass.chunks)
  /\ \A r \in pass.rowsBefore : r.fileHash # pass.fileHash
  /\ \A r, q \in pass.rowsBefore : r.fileHash = q.fileHash
  /\ Cardinality(ChangedChunks(pass)) = 1

\* C3: in that case the pass makes exactly one embed call and one
\* updateChunk call, and the other N-1 rows are left as they were.
C3_MinimalDiff ==
  MinimalDiffCase(last) =>
     /\ last.emb = 1 /\ last.upd = 1 /\ last.ins = 0
     /\ \A r \in last.rowsBefore :
          (\A i \in ChangedChunks(last) :
              SpanOf(r) # <<last.chunks[i].startLine, last.chunks[i].endLine>>)
          => r \in last.rowsAfter

\* C4: every row with a parent references a live row of the same file_path.
C4_ParentIntegrity ==
  \A r \in rows :
     r.parentChunkId # Null =>
        \E q \in rows : q.id = r.parentChunkId /\ q.filePath = r.filePath

\* a pass that wrote rows and then threw has left rows that have a parent
C4_Witness ==
  /\ Ran(last) /\ ~last.ok /\ last.ins + last.upd > 0
  /\ \E r \in rows : r.parentChunkId # Null

\* C5: no two live rows of one file_path have the same (startLine, endLine).
C5_SpanUnique ==
  \A r, q \in rows :
     (r.filePath = q.filePath /\ SpanOf(r) = SpanOf(q)) => r.id = q.id

\* C6: at most one processFile is in progress at any time.
InProcessFile(s) == tasks[s].pc \in {"read", "embed"}
C6_OneReconcile == Cardinality({s \in Slots : InProcessFile(s)}) <= 1

Reported(changes, p, exists) ==
  \E j \in 1..Len(changes) : changes[j].filePath = p /\ changes[j].exists = exists

\* C7: a document whose latest processFile threw, and that still exists, is
\* reported changed (and so reconciled again) by the next scan.
C7_RetryNextCycle ==
  \A p \in dueAtScan : Reported(lastChanges, p, TRUE)

\* C8: when embed rejects for chunk k of a pass, chunk k is neither inserted
\* nor updated and every later chunk of the pass is still processed.
C8_EmbedFailureSkipsOne ==
  (Ran(last) /\ last.failedAt # 0) =>
     /\ last.failedAt \notin last.processed
     /\ \A j \in (last.failedAt + 1)..Len(last.chunks) : j \in last.processed

\* the first change of a list that names an existing document, "" if none
RECURSIVE NextFile(_)
NextFile(changes) ==
  IF changes = << >> THEN ""
  ELSE IF Head(changes).exists THEN Head(changes).filePath
  ELSE NextFile(Tail(changes))

\* C9: when the processFile of one changed document throws, the batch goes
\* on to reconcile the next changed document, and the rows of the failing
\* document are as they were before the pass.
C9_BatchIsolation ==
  (Ran(last) /\ ~last.ok) =>
     /\ last.rowsAfter = last.rowsBefore
     /\ NextFile(last.rest) # "" =>
          last.cont = [pc |-> "read", filePath |-> NextFile(last.rest)]

\* C10: a scan reports a path changed, with its current hash, exactly when
\* it is enumerated and its hash is not the one in the map the previous scan
\* left; removed exactly when it is in that map and not enumerated; and it
\* leaves the map equal to the current enumeration.
Enumerated(p) == fs[p] # NoFile
ScanClassified ==
  /\ \A p \in Paths :
       /\ Reported(lastChanges', p, TRUE)
            <=> (Enumerated(p) /\ MapGet(fileHashes, p) # computeHash(fs[p]))
       /\ Reported(lastChanges', p, FALSE)
            <=> (MapHas(fileHashes, p) /\ ~Enumerated(p))
       /\ MapGet(fileHashes', p)
            = (IF Enumerated(p) THEN computeHash(fs[p]) ELSE NoHash)
  /\ \A j \in 1..Len(lastChanges') :
       lastChanges'[j].exists =>
          lastChanges'[j].hash = computeHash(fs[lastChanges'[j].filePath])
  /\ \A j \in 1..Len(fileHashes') : fileHashes'[j].filePath \in Paths
C10_ScanClassification == [][scans' # scans => ScanClassified]_vars

\* a scan has reported a path removed
C10_Witness == Reported(lastChanges, "BankIntegration/apis/A.xml", FALSE)

\* the store has no row whose parent is not a live row
NoOrphans(rs) ==
  \A r \in rs : r.parentChunkId # Null => \E q \in rs : q.id = r.parentChunkId

\* slot s ran in this step: it took a new batch from a scan, or its task
\* went on from an await
RanInStep(s) ==
  /\ started'
  /\ IF scans' # scans THEN s = FreeSlot
     ELSE tasks[s].pc \in {"read", "embed"} /\ tasks'[s] # tasks[s]

\* the paths that the loop of processChanges passed as removed in this step
RemovedInStep(s) ==
  LET changes == IF scans' # scans THEN lastChanges' ELSE tasks[s].changes
      from == IF scans' # scans THEN 1 ELSE tasks[s].ci
      upto == IF tasks'[s].pc = "idle" THEN Len(changes) ELSE tasks'[s].ci
  IN {changes[j].filePath : j \in {k \in from..upto : ~changes[k].exists}}

\* C11: when processChanges comes to a change reported removed, it deletes
\* the rows of the path without chunking or embedding it: after the step the
\* store has no row of the path and no row whose parent is gone.
C11_CascadeDelete ==
  [][\A s \in Slots :
       RanInStep(s) =>
          \A p \in RemovedInStep(s) :
             /\ getChunksByFile(rows', p) = {}
             /\ NoOrphans(rows')
             /\ ~(tasks'[s].pc \in {"read", "embed"} /\ tasks'[s].filePath = p)]_vars

\* a reconciled document was reported removed and its rows are gone
C11_Witness ==
  /\ Reported(lastChanges, "BankIntegration/apis/A.xml", FALSE)
  /\ okPass["BankIntegration/apis/A.xml"].rows # {}
  /\ getChunksByFile(rows, "BankIntegration/apis/A.xml") = {}

\* the parent reference of the row with this id; null when no row has it
ParentOf(rs, id) ==
  IF \E q \in rs : q.id = id
  THEN (CHOOSE q \in rs : q.id = id).parentChunkId ELSE Null

\* the row reached from id by following n parent references
RECURSIVE Climb(_, _, _)
Climb(rs, id, n) ==
  IF id = Null \/ n = 0 THEN id ELSE Climb(rs, ParentOf(rs, id), n - 1)

\* C14: following parentChunkId from any row ends at a row without a parent
\* after at most as many steps as there are rows: there is no cycle.
C14_AcyclicForest ==
  \A r \in rows : Climb(rows, r.id, Cardinality(rows)) = Null

Ids(rs) == {r.id : r \in rs}

\* the task of slot s goes on from an embed that was called for a chunk with
\* a matching row: this step calls updateChunk
UpdateStep(s) ==
  /\ started' /\ embedFails' = embedFails
  /\ tasks[s].pc = "embed" /\ tasks'[s] # tasks[s]
  /\ Existing(tasks[s]) # {}

\* C12: an inserted row gets an id no earlier insert returned, also when the
\* rows of earlier inserts are deleted; a row that stays keeps its id and its
\* file_path; an updateChunk of a row matched by span adds and removes no id.
C12_FreshImmutableId ==
  [][/\ nextId' >= nextId
     /\ \A r \in rows' : r.id < nextId'
     /\ \A r \in rows' :
          r.id < nextId => \E q \in rows : q.id = r.id /\ q.filePath = r.filePath
     /\ \A r, q \in rows' : r.id = q.id => r = q
     /\ \A s \in Slots :
          UpdateStep(s) => (Ids(rows') = Ids(rows) /\ nextId' = nextId)]_vars

\* a pass has updated a row it matched by span under another chunkIndex
C12_Witness ==
  /\ Ran(last) /\ last.ok /\ last.upd > 0
  /\ \E r \in last.rowsBefore : \E q \in last.rowsAfter :
        /\ q.id = r.id /\ SpanOf(q) = SpanOf(r)
        /\ q.chunkIndex # r.chunkIndex

\* C13: updateChunk with an id no row has leaves the set of rows as it was.
C13_UpdateMissingId ==
  [][(call'.op = "update" /\ search' = search /\ call'.id \notin Ids(rows))
        => rows' = rows]_vars

\* updateChunk was called last, with an id no row has, on a store with rows
C13_Witness ==
  call.op = "update" /\ call.id \notin Ids(rows) /\ rows # {}

\* the search call returns in this step
SearchReturns == search.pc = "embed" /\ search'.pc = "done"

Norm2(v) == SumProducts(v, v, 1)
EmbeddingOf(rs, id) == (CHOOSE r \in rs : r.id = id).embedding

\* C15: a fragment whose vector, or whose query's vector, has zero norm gets
\* the similarity 0.
C15_ZeroNormIsZero ==
  [][SearchReturns =>
       \A i \in 1..Len(search'.results) :
          (Norm2(search.query) = 0
             \/ Norm2(EmbeddingOf(rows, search'.results[i].id)) = 0)
          => search'.results[i].similarity = Zero]_vars

\* x is not below y; a NaN is below nothing and nothing is below it
NotBelow(x, y) == x.nan \/ y.nan \/ ~Less(x, y)

\* results is the ranking of the rows rs for the query: the first
\* min(topK, rows) of the rows, each with its similarity, no result below a
\* later one, equal similarities in rowid order, no returned row below an
\* omitted one
Ranked(results, rs, queryEmbedding, topK) ==
  /\ Len(results) = (IF topK < Cardinality(rs) THEN topK ELSE Cardinality(rs))
  /\ \A i \in 1..Len(results) :
        /\ results[i].id \in Ids(rs)
        /\ results[i].similarity =
             computeCosineSimilarity(queryEmbedding, EmbeddingOf(rs, results[i].id))
  /\ \A i, j \in 1..Len(results) : results[i].id = results[j].id => i = j
  /\ \A i, j \in 1..Len(results) :
        i < j =>
           /\ NotBelow(results[i].similarity, results[j].similarity)
           /\ (~results[i].similarity.nan /\ ~results[j].similarity.nan
                 /\ Same(results[i].similarity, results[j].similarity))
                => results[i].id < results[j].id
  /\ \A i \in 1..Len(results) : \A r \in rs :
        (\A k \in 1..Len(results) : results[k].id # r.id) =>
           NotBelow(results[i].similarity,
                    computeCosineSimilarity(queryEmbedding, r.embedding))

\* C16: search returns the ranking of the rows the store holds.
C16_Ranking ==
  [][SearchReturns => Ranked(search'.results, rows, search.query, search.topK)]_vars

\* C17: when the embedding of the query resolves and the store holds no row,
\* search returns the empty list and raises no error.
C17_EmptyStore ==
  [][(search.pc = "embed" /\ search'.pc \in {"done", "error"} /\ rows = {})
        => (search'.pc = "done" /\ search'.results = << >>)]_vars

\* a search asking for results has returned on a store that never had a row
C17_Witness ==
  /\ search.pc = "done" /\ search.topK > 0 /\ search.results = << >>
  /\ rows = {} /\ nextId = 1

\* C18: no step of the query process (construction, call, return, error)
\* changes the rows, the id sequence or the Watcher's fingerprint map.
C18_QueryReadOnly ==
  [][search' # search => UNCHANGED <<rows, nextId, fileHashes>>]_vars

\* a search has returned results from a store with rows
C18_Witness ==
  search.pc = "done" /\ search.results # << >> /\ rows # {}

\* the documents made of one container holding two mediators
TwoLeafDocIds == {1, 3, 4}

\* the pass reconciled such a document for a path that had no row
FirstReconcile(pass) ==
  /\ Ran(pass) /\ pass.ok
  /\ pass.docId \in TwoLeafDocIds
  /\ pass.rowsBefore = {}

\* the row the pass left for its chunk i
RowOfChunk(pass, i, r) ==
  /\ r \in pass.rowsAfter
  /\ r.chunkType = pass.chunks[i].chunkType
  /\ SpanOf(r) = <<pass.chunks[i].startLine, pass.chunks[i].endLine>>

\* C19: chunkFile emits 3 chunks for a container with two leaves, and the
\* first processFile stores a container row without parent and two leaf rows
\* whose parentChunkId is the id of the container row.
C19_TwoLeafScenario ==
  FirstReconcile(last) =>
     /\ Len(last.chunks) = 3
     /\ \E c, l1, l2 \in last.rowsAfter :
           /\ RowOfChunk(last, 1, c) /\ RowOfChunk(last, 2, l1)
           /\ RowOfChunk(last, 3, l2)
           /\ Cardinality({c.id, l1.id, l2.id}) = 3
           /\ c.parentChunkId = Null
           /\ l1.parentChunkId = c.id /\ l2.parentChunkId = c.id

\* the first pass over the api with a log and a respond has returned
C19_Witness == FirstReconcile(last) /\ last.docId = 1 /\ last.ins = 3

\* the pass reconciled the two-leaf document again, with its respond element
\* deleted, from the rows the pass over the two-leaf document left
LeafRemoved(pass) ==
  /\ Ran(pass) /\ pass.ok /\ pass.prev.same
  /\ pass.prev.docId = 1 /\ pass.docId = 2

\* C20: that pass removes the row of the deleted leaf and nothing else; the
\* other two rows keep their ids and their timestamps.
C20_LeafRemoval ==
  LeafRemoved(last) =>
     /\ Ids(last.rowsAfter) \subseteq Ids(last.rowsBefore)
     /\ \A r \in last.rowsBefore :
          IF r.chunkType = "respond"
          THEN r.id \notin Ids(last.rowsAfter)
          ELSE \E q \in last.rowsAfter :
                  q.id = r.id /\ q.timestamp = r.timestamp

\* the pass found, in place of a document with persisted rows, a revision
\* that is unparsable or yields no fragment
InPlace(pass) ==
  /\ Ran(pass) /\ pass.rowsBefore # {}
  /\ pass.docId # NoFile
  /\ (Docs[pass.docId].bad \/ pass.chunks = << >>)

C22_StopAtBoundary ==
  [][(isInitialized /\ started /\ ~started')
        => \A s \in Slots : ~InProcessFile(s)]_vars

\* every poll cycle that was started has finished
Quiet == started /\ \A s \in Slots : tasks[s].pc = "idle"

\* the latest scan has seen the revision the path holds now
Scanned(p) ==
  fs[p] # NoFile /\ MapGet(fileHashes, p) = computeHash(fs[p])

\* the store holds a row for every fragment of the revision at path p, with
\* the fingerprint of that revision
Fresh(p) ==
  LET chunks == chunkFile(Docs[fs[p]], p, 0).chunks
  IN \A i \in 1..Len(chunks) :
        \E r \in getChunksByFile(rows, p) :
           /\ SpanOf(r) = <<chunks[i].startLine, chunks[i].endLine>>
           /\ r.chunkType = chunks[i].chunkType
           /\ r.fileHash = computeHash(fs[p])

\* C23: once the poll cycle that scanned the current revision of a document
\* has finished, every fragment of that revision is persisted with the
\* revision's fingerprint.
C23_BoundedStaleness ==
  Quiet => \A p \in Paths :
              (Scanned(p) /\ ~Docs[fs[p]].bad) => Fresh(p)

\* C24: a path that the latest scan reported removed and that is enumerated
\* by this scan is reported changed with exists = true and its current hash,
\* whatever its hash was before the removal.
C24_RestoredIsNew ==
  [][\A p \in Paths :
       (scans' # scans /\ Reported(lastChanges, p, FALSE) /\ Enumerated(p))
       => \E j \in 1..Len(lastChanges') :
             lastChanges'[j] = [filePath |-> p, hash |-> computeHash(fs[p]),
                                exists |-> TRUE]]_vars

\* a document was reconciled, reported removed (its rows are gone) and is
\* reported changed again with the fingerprint it had when it was reconciled
C24_Witness ==
  LET p == "BankIntegration/apis/A.xml" IN
  /\ Reported(lastChanges, p, TRUE)
  /\ fs[p] # NoFile /\ okPass[p].hash = computeHash(fs[p])
  /\ okPass[p].rows # {} /\ getChunksByFile(rows, p) = {}
  /\ \E s \in Slots : tasks[s].pc = "read" /\ tasks[s].filePath = p
                        /\ tasks[s].fileHash = okPass[p].hash

\* C25: a step of a poll cycle in which scanForChanges throws, or in which a
\* processFile throws (chunking, embedding, store), leaves the interval timer
\* set and the process alive.
C25_PollSurvives ==
  [][(timer /\ (scanFailed' # scanFailed \/ (last' # last /\ ~last'.ok)))
        => (timer' /\ started')]_vars

\* a poll cycle later than one whose scan threw has written a row
C25_Witness ==
  \E k \in scanFailed : \E r \in rows : r.timestamp > k

\* ------------------------------------------------------------------------
\* The element tree of the document of a chunkFile call, read off its tokens
\* ------------------------------------------------------------------------
ContainerTags == {"api", "proxy", "sequence", "endpoint", "localEntry", "resource"}
FlowTags == {"inSequence", "outSequence", "faultSequence"}
LeafTags ==
  {"log", "payloadFactory", "property", "variable", "filter", "respond",
   "call", "send", "drop", "enrich", "switch", "clone", "iterate",
   "aggregate", "cache", "throttle", "validate", "xslt", "script",
   "http.post", "http.get", "http.put", "http.delete", "http.patch"}

CallLines == chunkCall.doc.lines
CallToks == TokensOf(CallLines, 1, Len(CallLines))
Returned == chunkCall.pc = "done"

\* the line holding the token at position pos, counting from line i
RECURSIVE LineOfToken(_, _, _)
LineOfToken(lines, pos, i) ==
  IF pos <= Len(lines[i]) THEN i
  ELSE LineOfToken(lines, pos - Len(lines[i]), i + 1)

\* the position of the close tag that brings the depth back to 0
RECURSIVE CloseFrom(_, _, _)
CloseFrom(toks, pos, depth) ==
  LET d == CASE toks[pos].k = "open" -> depth + 1
             [] toks[pos].k = "close" -> depth - 1
             [] OTHER -> depth
  IN IF d = 0 THEN pos ELSE CloseFrom(toks, pos + 1, d)

\* the last token of the element that starts at pos
EndOf(toks, pos) ==
  IF toks[pos].k = "open" THEN CloseFrom(toks, pos + 1, 1) ELSE pos

IsElement(toks, pos) == toks[pos].k \in {"open", "self", "bare"}
Encloses(toks, q, pos) ==
  toks[q].k = "open" /\ q < pos /\ pos < EndOf(toks, q)

\* the elements that are to be emitted: classified, without a leaf ancestor
Fragments(toks) ==
  {pos \in 1..Len(toks) :
     /\ IsElement(toks, pos)
     /\ toks[pos].t \in ContainerTags \cup FlowTags \cup LeafTags
     /\ ~\E q \in 1..Len(toks) :
           Encloses(toks, q, pos) /\ toks[q].t \in LeafTags}

\* 0-based rank of a fragment in document order, and its inverse
IndexOf(toks, pos) == Cardinality({q \in Fragments(toks) : q < pos})
PosOf(toks, i) == CHOOSE pos \in Fragments(toks) : IndexOf(toks, pos) = i

\* the container and flow elements around pos
Enclosing(toks, pos) ==
  {q \in 1..Len(toks) :
     Encloses(toks, q, pos) /\ toks[q].t \in ContainerTags \cup FlowTags}
Nearest(toks, pos) ==
  CHOOSE q \in Enclosing(toks, pos) : \A r \in Enclosing(toks, pos) : r <= q

\* C26: in the list chunkFile returns, a fragment without enclosing
\* container or flow element has parentChunkId null; any other has the
\* chunkIndex of the nearest such element, whose fragment is earlier in the
\* list and is not a leaf fragment.
C26_ParentLinkage ==
  Returned =>
    LET toks == CallToks
        chunks == chunkCall.chunks
    IN \A i \in 1..Len(chunks) :
         LET pos == PosOf(toks, i - 1) IN
         IF Enclosing(toks, pos) = {} THEN chunks[i].parentChunkId = Null
         ELSE \E j \in 1..(i - 1) :
                 /\ chunks[j].chunkIndex = chunks[i].parentChunkId
                 /\ chunks[j].chunkIndex < chunks[i].chunkIndex
                 /\ PosOf(toks, j - 1) = Nearest(toks, pos)
                 /\ chunks[j].chunkType \notin LeafTags

\* a leaf inside a flow element inside the root has the flow fragment as
\* parent, and the flow fragment has the root's
C26_Witness ==
  /\ Returned
  /\ \E i, j, k \in 1..Len(chunkCall.chunks) :
        /\ chunkCall.chunks[i].chunkType = "log"
        /\ chunkCall.chunks[j].chunkType = "inSequence"
        /\ chunkCall.chunks[k].chunkType = "api"
        /\ chunkCall.chunks[i].parentChunkId = chunkCall.chunks[j].chunkIndex
        /\ chunkCall.chunks[j].parentChunkId = chunkCall.chunks[k].chunkIndex
        /\ chunkCall.chunks[k].parentChunkId = Null

\* C28: chunkFile returns one fragment per element that is classified and
\* has no leaf ancestor, in document order; an unclassified element and the
\* children of a leaf add none, and a fragment's parent is the nearest
\* enclosing container or flow element whatever unclassified elements lie
\* between.
C28_Emission ==
  Returned =>
    LET toks == CallToks
        chunks == chunkCall.chunks
    IN /\ Len(chunks) = Cardinality(Fragments(toks))
       /\ \A i \in 1..Len(chunks) :
            LET pos == PosOf(toks, i - 1) IN
            /\ chunks[i].chunkType = toks[pos].t
            /\ chunks[i].parentChunkId =
                 (IF Enclosing(toks, pos) = {} THEN Null
                  ELSE IndexOf(toks, Nearest(toks, pos)))

\* the document has a classified element inside a leaf and a leaf inside an
\* unclassified element
C28_Witness ==
  /\ Returned
  /\ \E pos, q \in 1..Len(CallToks) :
        /\ Encloses(CallToks, q, pos) /\ CallToks[q].t = "log"
        /\ IsElement(CallToks, pos) /\ CallToks[pos].t = "respond"
  /\ Len(chunkCall.chunks) = 2

\* C29: every fragment has 1 <= startLine <= endLine <= number of lines, and
\* the fragment of a self-closing element has startLine = endLine.
C29_SpanWellFormed ==
  Returned =>
    \A i \in 1..Len(chunkCall.chunks) :
       LET c == chunkCall.chunks[i] IN
       /\ 1 <= c.startLine /\ c.startLine <= c.endLine
       /\ c.endLine <= Len(CallLines)
       /\ CallToks[PosOf(CallToks, i - 1)].k \in {"self", "bare"}
            => c.startLine = c.endLine

\* C30: startLine is the line of the fragment's own opening tag and endLine
\* the line of the closing tag that matches it.
C30_SpanMatchesElement ==
  Returned =>
    \A i \in 1..Len(chunkCall.chunks) :
       LET c == chunkCall.chunks[i]
           pos == PosOf(CallToks, i - 1)
       IN /\ c.startLine = LineOfToken(CallLines, pos, 1)
          /\ c.endLine = LineOfToken(CallLines, EndOf(CallToks, pos), 1)

\* C27: the list a chunkFile call returns to processFile is numbered
\* 0, 1, ..., n-1 in list order, also when another chunkFile call on the
\* pipeline's XMLChunker ran while this one was waiting for its file read.
C27_PerCallIndex ==
  Ran(last) =>
     \A i \in 1..Len(last.chunks) : last.chunks[i].chunkIndex = i - 1

\* the values of containerKind
ContainerKinds == {"api", "sequence", "proxy", "endpoint", "localEntry", "unknown"}

\* C31: every fragment chunkFile returns has its resourceType among api,
\* sequence, proxy, endpoint, localEntry and unknown, whatever its tag.
C31_ContainerKindDomain ==
  Returned =>
    \A i \in 1..Len(chunkCall.chunks) :
       chunkCall.chunks[i].resourceType \in ContainerKinds

\* a poll cycle starts in this step
PollStarts ==
  started /\ scans' # scans /\ lifecycle'.starts = lifecycle.starts

C37_StoppedStaysStopped ==
  lifecycle.stopped => (~timer /\ ~isInitialized)

\* the row that the pass recorded for the transient chunk with this
\* chunkIndex has, after the pass, this parent reference
HoldsWithParent(pass, chunkIndex, parent) ==
  /\ chunkIndex \in DOMAIN pass.chunkIndexToDbId
  /\ \E r \in pass.rowsAfter :
        /\ r.id = pass.chunkIndexToDbId[chunkIndex]
        /\ r.parentChunkId = parent

\* C33: after a processFile that returns normally, the row holding a
\* transient chunk has as parentChunkId the id of the row holding the chunk's
\* transient parent, and null when the chunk has no parent; rows skipped as
\* unchanged included.
C33_ForestMirrored ==
  (Ran(last) /\ last.ok) =>
     \A i \in 1..Len(last.chunks) :
        LET c == last.chunks[i]
        IN IF c.parentChunkId = Null
           THEN HoldsWithParent(last, c.chunkIndex, Null)
           ELSE /\ c.parentChunkId \in DOMAIN last.chunkIndexToDbId
                /\ HoldsWithParent(last, c.chunkIndex,
                                   last.chunkIndexToDbId[c.parentChunkId])

\* the task of slot s goes on from an embed that resolved: this step calls
\* insertChunk or updateChunk for chunk t.i
StoreStep(s) ==
  /\ started' /\ embedFails' = embedFails
  /\ tasks[s].pc = "embed" /\ tasks'[s] # tasks[s]

\* the statement of that call leaves idx_unique_chunk intact
IssuedUniqueOk(s) ==
  LET t == tasks[s]
      chunk == t.chunks[t.i]
      existing == Existing(t)
  IN IF existing = {}
     THEN UniqueOk(rows, nextId, chunk.filePath, chunk)
     ELSE LET id == (CHOOSE r \in existing : TRUE).id
          IN (\E r \in rows : r.id = id) =>
                UniqueOk(rows, id, (CHOOSE r \in rows : r.id = id).filePath,
                         chunk)

\* C34: no insertChunk or updateChunk issued by processFile conflicts with
\* the unique index on (file_path, chunk_index, start_line, end_line).
C34_NoConstraintError ==
  [][\A s \in Slots : StoreStep(s) => IssuedUniqueOk(s)]_vars

\* C35: when processInitial has completed, every row of the store belongs
\* to a document that the bootstrap scan found or that exists now, also when
\* the rows were stored by an earlier run of the service.
C35_NoRowsOfMissing ==
  [][(isInitialized' /\ ~isInitialized) =>
        \A r \in rows' :
           MapHas(fileHashes', r.filePath) \/ fs'[r.filePath] # NoFile]_vars

\* findXMLFiles finds the path under one of the directories of the list
Found(p) ==
  \E j \in 1..Len(Enumerate(watch.dirs, fs)) : Enumerate(watch.dirs, fs)[j] = p

\* how many entries of the list report the path, as changed or as removed
ReportCount(changes, p, exists) ==
  Cardinality({j \in 1..Len(changes) :
                 changes[j].filePath = p /\ changes[j].exists = exists})

\* C36: a scanForChanges call with no file created, modified or deleted
\* since the call before it returns the empty list; a document that
\* disappeared is reported removed once by the first call that does not find
\* it, and not by a later call.
C36_Quiescence ==
  [][scans' # scans =>
       /\ watch.quiet => lastChanges' = << >>
       /\ \A p \in Paths :
            /\ (MapHas(fileHashes, p) /\ ~Found(p))
                  => ReportCount(lastChanges', p, FALSE) = 1
            /\ (Reported(lastChanges, p, FALSE) /\ ~Found(p))
                  => ReportCount(lastChanges', p, FALSE) = 0]_vars

\* a document was reported removed, and a later call, with no file touched
\* since the call before it, has returned the empty list
C36_Witness ==
  /\ "BankIntegration/apis/A.xml" \in watch.removed
  /\ watch.quiet /\ watch.quietScans > 0
  /\ lastChanges = << >>
  /\ fs["BankIntegration/apis/A.xml"] = NoFile

\* C39: the list of one scanForChanges call holds each path at most once,
\* for every list of directories.
C39_OneReportPerPath ==
  \A p \in Paths :
     ReportCount(lastChanges, p, TRUE) + ReportCount(lastChanges, p, FALSE) <= 1

\* the spans the call has inserted
Inserted(l) ==
  {l.ops[j].span : j \in {k \in 1..Len(l.ops) : l.ops[k].op = "insert"}}

\* C38: an indexFile call that finds chunks of the file whose lastModified
\* is >= the modification time of the file returns 0 without a delete or an
\* insert; any other call deletes the chunks the file had, before anything
\* else, and then only inserts: the file is left with the chunks the call
\* stored, and the chunks of other files are untouched.
C38_SkipUnchanged ==
  legacy.pc = "done" =>
     LET existing == FileRows(legacy.before, LegacyFile)
         now == FileRows(legacy.store, LegacyFile)
     IN IF existing # {}
           /\ FirstRow(existing).lastModified >= legacy.lastModified
        THEN /\ legacy.ret = 0
             /\ legacy.ops = << >>
             /\ legacy.store = legacy.before
        ELSE /\ \A j \in 1..Len(legacy.ops) :
                  legacy.ops[j].op = "delete" <=> (j = 1 /\ existing # {})
             /\ existing # {} => Len(legacy.ops) >= 1
             /\ \A r \in now : /\ r \notin existing
                               /\ r.lastModified = legacy.lastModified
             /\ {r.span : r \in now} = Inserted(legacy)
             /\ FileRows(legacy.store, OtherFile)
                  = FileRows(legacy.before, OtherFile)

\* a call has skipped the file, whose chunks an earlier call stored
C38_Witness ==
  /\ legacy.pc = "done" /\ legacy.calls = 2
  /\ FileRows(legacy.before, LegacyFile) # {}
  /\ FirstRow(FileRows(legacy.before, LegacyFile)).lastModified
       >= legacy.lastModified
  /\ legacy.ops = << >> /\ legacy.ret = 0

====
